---- MODULE Spec2Model ----
(***************************************************************************)
(* Fleet simulator and broadcaster of backend/app.py, with the persistence *)
(* calls of backend/dsa/db_utils.py it depends on.                         *)
(*                                                                         *)
(* Scheduling: the program runs on gevent greenlets (app.py:8-9, 482).     *)
(* Greenlets are cooperative: control changes hands only inside            *)
(* client.send (socket I/O) and gevent.sleep.  The sqlite3 calls and the   *)
(* dict/list operations do not yield.  One step of the model is therefore  *)
(* the code a greenlet runs from one such point to the next.               *)
(*                                                                         *)
(* Coordinates are integers in units of 0.000125 degree, so the step and   *)
(* the arrival threshold (0.00025) are 2 and the idle drift (at most       *)
(* 0.00015) is at most 1.  Coordinate 0 stands for the literal 0.0.        *)
(***************************************************************************)
EXTENDS Integers, Sequences, FiniteSets, TLC

\* ---------------------------------------------------------------- bounds
MaxLat == 2
MaxLon == 5
NumCabs == 1
NumConns == 2
MaxTrace == 7
MaxWeight == 2
BufferSteps == 1
TickPeriod == 2
FinderCabs == 4
FinderSpan == 3
MaxFactor == 4
MaxLeg == 10
MaxFare == 7
MaxPath == 3
MaxExtent == 5
MaxCalls == 7
MaxKey == 2

\* ------------------------------------------------------ program constants
ARRIVE_THRESHOLD == 2
step == 2
DRIFT == 1
\* stand-in for the square root of the largest float: x**2 raises OverflowError
\* for a float x of larger magnitude
SqrtMaxFloat == 100
\* stand-in for a start_latitude of 1e200 in a request
HugeCoord == 1000
\* stand-in for the 53 bits of the significand of a float
MantissaBits == 8

Cabs == 1..NumCabs
UnknownCab == NumCabs + 1
CabIds == Cabs \cup {UnknownCab}
Conns == 1..NumConns
Lats == 1..MaxLat
Lons == 1..MaxLon

\* request inputs: pickup and drop-off points of booking requests
PickupPoints == {<<1, 2>>, <<MaxLat, 4>>}
EndPoints == {<<1, MaxLon>>, <<MaxLat, 3>>}

\* rows a rides table created by an earlier version of the program may hold
\* for a cab: end coordinates that are a point, empty, or not a number
LegacyEnds == {[kind |-> "point", pt |-> <<1, MaxLon>>],
               [kind |-> "missing", pt |-> <<0, 0>>],
               [kind |-> "unparseable", pt |-> <<0, 0>>]}

VARIABLES
    cabs,                \* cabs table: cab_id -> [latitude, longitude, status]
    rides,               \* rides table: [schema, rows: cab_id -> latest row]
    active_cab_targets,  \* dict cab_id -> [target_lat, target_lng, phase]
    clients,             \* list of connected websocket clients
    conn,                \* per websocket: new / open / broken / closed / done
    tick,                \* the simulate_cab_movements greenlet: position and locals
    handler,             \* a complete_ride request suspended in broadcast_to_all
    fx,                  \* what the last step did: deliveries and code paths taken
    order,               \* per cab: were assign / complete issued in order so far
    trace,               \* per cab: the statuses written to the cabs table, in order
    graph                \* a Graph object: [vertices, edges]

vars == <<cabs, rides, active_cab_targets, clients, conn, tick, handler, fx, order, trace,
          graph>>

\* ---------------------------------------------------------------- helpers
\* clients.pop(0) in place of clients.remove(e)
Remove_Head(s, e) == IF s = <<>> THEN s ELSE Tail(s)

Remove(s, e) == SelectSeq(s, LAMBDA x : x # e)

Range(s) == {s[i] : i \in DOMAIN s}

Abs(x) == IF x < 0 THEN -x ELSE x

Sign(x) == IF x < 0 THEN -1 ELSE IF x > 0 THEN 1 ELSE 0

DictSet(d, k, v) == [x \in DOMAIN d \cup {k} |-> IF x = k THEN v ELSE d[x]]

DictPop(d, k) == [x \in DOMAIN d \ {k} |-> d[x]]

Min(a, b) == IF a < b THEN a ELSE b

Max(a, b) == IF a > b THEN a ELSE b

\* Graph(): "self.vertices = {}; self.edges = {}"
EmptyGraph == [vertices |-> <<>>, edges |-> <<>>]

\* (dlat**2 + dlon**2), the square of dist
Dist2(dlat, dlon) == dlat * dlat + dlon * dlon

\* step * (d / dist) rounded to the nearest unit, dist = sqrt(d2) >= step
StepToward(d, d2) ==
    Sign(d) * (CHOOSE k \in 0..step :
                  /\ (k = 0 \/ (2 * k - 1) * (2 * k - 1) * d2 <= 4 * step * step * d * d)
                  /\ 4 * step * step * d * d < (2 * k + 1) * (2 * k + 1) * d2)

\* random.uniform(-0.00015, 0.00015) added to a coordinate, kept inside the map
Drifted(x, d, max) == IF x + d \in 1..max THEN x + d ELSE x

\* an event; tick is the number of the tick that produced it, 0 when ticks are
\* not counted or the event is not a tick's
Event(cab_id, lat, lon, status) ==
    [cab_id |-> cab_id, latitude |-> lat, longitude |-> lon, status |-> status,
     tick |-> 0]

NoMsg == Event(0, 0, 0, "")

Delivery(to, msg) == [kind |-> "sent", to |-> to, cab |-> msg.cab_id, msg |-> msg]

Mark(kind, cab_id) == [kind |-> kind, to |-> 0, cab |-> cab_id, msg |-> NoMsg]

Dropped(client) == [kind |-> "dropped", to |-> client, cab |-> 0, msg |-> NoMsg]

\* the 'Ride booked successfully!' response of book_cab, which carries the
\* cab and the start point of the request
BookedResponse(cab_id, start) ==
    [kind |-> "booked", to |-> 0, cab |-> cab_id,
     msg |-> Event(cab_id, start[1], start[2], "Enroute to Pickup")]

\* the tick's locals while it is in gevent.sleep. The last seven fields are
\* history, kept only when ticks are counted (n > 0): the number of the tick,
\* the cabs of its snapshot, the cabs it produced an event for, the cabs whose
\* step raised, whether the handler of the whole loop body ended the tick,
\* whether an exception was raised in the tick before this one, and whether
\* get_all_cabs failed
TickAsleep ==
    [pc |-> "sleep", snap |-> <<>>, i |-> 0, updates |-> <<>>, q |-> <<>>,
     msg |-> NoMsg, ret |-> "", j |-> 0, target |-> <<0, 0>>,
     n |-> 0, seen |-> {}, emitted |-> {}, raised |-> {}, aborted |-> FALSE,
     after_error |-> FALSE, unread |-> FALSE]

\* the end of an iteration of "while True": the locals are dropped, except,
\* where ticks are counted, the list updates
Asleep(t) ==
    IF t.n = 0
    THEN TickAsleep
    ELSE [TickAsleep EXCEPT !.updates = t.updates,
                            !.n = t.n, !.seen = t.seen, !.emitted = t.emitted,
                            !.raised = t.raised, !.aborted = t.aborted,
                            !.after_error = t.after_error, !.unread = t.unread]

\* the start of an iteration that keeps the list updates of the last one
Awake_KeepsUpdates(t, snap) ==
    [TickAsleep EXCEPT !.pc = "cab", !.snap = snap, !.i = 1, !.updates = t.updates,
                       !.n = IF t.n = 0 THEN 0 ELSE (t.n % TickPeriod) + 1,
                       !.seen = IF t.n = 0 THEN {} ELSE {snap[i].cab_id : i \in DOMAIN snap},
                       !.after_error = (t.raised # {})]

\* the start of an iteration with the snapshot snap: "updates = []"
Awake(t, snap) ==
    [TickAsleep EXCEPT !.pc = "cab", !.snap = snap, !.i = 1,
                       !.n = IF t.n = 0 THEN 0 ELSE (t.n % TickPeriod) + 1,
                       !.seen = IF t.n = 0 THEN {} ELSE {snap[i].cab_id : i \in DOMAIN snap},
                       !.after_error = (t.raised # {})]

\* an event of the running tick
TickEvent(s, cab_id, lat, lon, status) ==
    [Event(cab_id, lat, lon, status) EXCEPT !.tick = s.t.n]

Emitted(s, cab_id) ==
    IF s.t.n = 0 THEN s ELSE [s EXCEPT !.t.emitted = @ \cup {cab_id}]

Raised(s, cab_id) ==
    IF s.t.n = 0 THEN s ELSE [s EXCEPT !.t.raised = @ \cup {cab_id}]

HandlerIdle == [pc |-> "idle", q |-> <<>>, msg |-> NoMsg]

\* ------------------------------------------------------------ persistence
\* A bundle s carries the state a greenlet reads and writes while it runs:
\* s.cabs, s.tg (active_cab_targets), s.clients, s.t (the tick's locals),
\* s.fx and s.trace; s.failing is the set of cabs whose UPDATE statements fail
\* with an sqlite3.Error while the greenlet runs.

NoCoord == -1
BadCoord == -2
NoStatus == ""

TraceAdd(tr, status) ==
    IF tr = <<>> \/ Len(tr) >= MaxTrace \/ tr[Len(tr)] = status
    THEN tr
    ELSE Append(tr, status)

\* DatabaseUtils.update_cab_status: UPDATE cabs SET status [, latitude, longitude]
update_cab_status(s, cab_id, status, latitude, longitude) ==
    IF cab_id \notin DOMAIN s.cabs \/ cab_id \in s.failing
    THEN s
    ELSE IF latitude # NoCoord /\ longitude # NoCoord
         THEN [s EXCEPT !.cabs[cab_id] = [latitude |-> latitude, longitude |-> longitude,
                                          status |-> status],
                        !.trace[cab_id] = TraceAdd(@, status)]
         ELSE [s EXCEPT !.cabs[cab_id].status = status,
                        !.trace[cab_id] = TraceAdd(@, status)]

\* DatabaseUtils.update_cab_location: UPDATE cabs SET latitude, longitude [, status]
update_cab_location(s, cab_id, latitude, longitude, status) ==
    IF cab_id \notin DOMAIN s.cabs \/ cab_id \in s.failing
    THEN s
    ELSE IF status # NoStatus
         THEN [s EXCEPT !.cabs[cab_id] = [latitude |-> latitude, longitude |-> longitude,
                                          status |-> status],
                        !.trace[cab_id] = TraceAdd(@, status)]
         ELSE [s EXCEPT !.cabs[cab_id].latitude = latitude,
                        !.cabs[cab_id].longitude = longitude]

\* DatabaseUtils.reset_all_cab_statuses: UPDATE cabs SET status = 'Available'
reset_all_cab_statuses(s) ==
    [s EXCEPT !.cabs = [c \in DOMAIN s.cabs |-> [s.cabs[c] EXCEPT !.status = "Available"]],
              !.trace = [c \in DOMAIN s.trace |-> TraceAdd(s.trace[c], "Available")]]

\* the columns of the rides table that initialize_db creates, and the columns
\* the SELECT of get_ride_by_cab_id names
RidesColumns ==
    {"id", "cab_id", "start_latitude", "start_longitude", "end_latitude",
     "end_longitude", "is_shared", "shared_ride_id", "timestamp"}

LegacyRidesColumns ==
    {"id", "cab_id", "user_start_x", "user_start_y", "user_end_x", "user_end_y",
     "timestamp", "shared"}

SelectRideColumns ==
    {"id", "cab_id", "user_start_x", "user_start_y", "user_end_x", "user_end_y",
     "timestamp", "shared"}

InsertRideColumns ==
    {"cab_id", "start_latitude", "start_longitude", "end_latitude", "end_longitude",
     "is_shared", "shared_ride_id"}

TableColumns(r) == IF r.schema = "current" THEN RidesColumns ELSE LegacyRidesColumns

NoRide == [found |-> FALSE, end |-> [kind |-> "missing", pt |-> <<0, 0>>]]

\* DatabaseUtils.get_ride_by_cab_id: the most recent ride of the cab, or None;
\* a column the table lacks is an sqlite3.Error, which returns None
get_ride_by_cab_id(r, cab_id) ==
    IF ~(SelectRideColumns \subseteq TableColumns(r))
    THEN NoRide
    ELSE IF cab_id \in DOMAIN r.rows
         THEN [found |-> TRUE, end |-> r.rows[cab_id].end]
         ELSE NoRide

\* DatabaseUtils.add_ride: INSERT INTO rides; an sqlite3.Error returns False
add_ride(r, cab_id, start, end) ==
    IF ~(InsertRideColumns \subseteq TableColumns(r))
    THEN r
    ELSE [r EXCEPT !.rows = DictSet(@, cab_id,
                                    [start |-> start, end |-> [kind |-> "point", pt |-> end]])]

\* the columns of shared_rides that initialize_db creates, and the columns the
\* INSERT of add_shared_ride names
SharedRidesColumns ==
    {"shared_ride_id", "cab_id", "driver_id", "status", "start_time", "end_time",
     "total_fare"}

InsertSharedRideColumns == {"primary_ride_id", "secondary_ride_id", "fare_division"}

\* RideSharing.confirm_shared_ride: the id of the new shared ride, or None (FALSE)
confirm_shared_ride == InsertSharedRideColumns \subseteq SharedRidesColumns

\* ------------------------------------------------------------ broadcaster
\* client.closed
Closed(client) == conn[client] \in {"closed", "done"}

\* client.send(...) returns normally; otherwise it raises
SendSucceeds(client) == conn[client] = "open"

\* the part of "for client in clients[:]" of broadcast_to_all that runs without
\* yielding: closed clients at the head of the remaining copy q are removed
RECURSIVE SkipClosed(_, _)
SkipClosed(cl, q) ==
    IF q = <<>>
    THEN [clients |-> cl, q |-> q]
    ELSE IF Closed(Head(q))
         THEN SkipClosed(Remove(cl, Head(q)), Tail(q))
         ELSE [clients |-> cl, q |-> q]

\* a failed send whose handler leaves the client in the list
AfterSend_KeepsFailed(cl, client, msg) ==
    IF SendSucceeds(client)
    THEN [clients |-> cl, fx |-> <<Delivery(client, msg)>>]
    ELSE [clients |-> cl, fx |-> <<Dropped(client)>>]

\* the outcome of the send a greenlet was suspended in: delivered, or an
\* exception whose handler removes the client
AfterSend(cl, client, msg) ==
    IF SendSucceeds(client)
    THEN [clients |-> cl, fx |-> <<Delivery(client, msg)>>]
    ELSE [clients |-> Remove(cl, client), fx |-> <<Dropped(client)>>]

\* --------------------------------------------------- simulate_cab_movements
\* arrival at the destination that also removes the active target
TickArrivedDestination_Clears(s, cab_id, target_lat, target_lng) ==
    LET s1 == update_cab_status(s, cab_id, "Arrived", target_lat, target_lng)
        s2 == update_cab_location(s1, cab_id, target_lat, target_lng, NoStatus)
    IN [Emitted(s2, cab_id)
           EXCEPT !.tg = DictPop(@, cab_id),
                  !.t.pc = "bcast", !.t.q = s.clients, !.t.ret = "next",
                  !.t.msg = TickEvent(s, cab_id, target_lat, target_lng, "ArrivedDestination"),
                  !.fx = Append(@, Mark("destination_arrival", cab_id))]

\* "elif phase == 'to_destination'": the cab reached its destination; the
\* active target is kept
TickArrivedDestination(s, cab_id, target_lat, target_lng) ==
    LET s1 == update_cab_status(s, cab_id, "Arrived", target_lat, target_lng)
        s2 == update_cab_location(s1, cab_id, target_lat, target_lng, NoStatus)
    IN [Emitted(s2, cab_id)
           EXCEPT !.t.pc = "bcast", !.t.q = s.clients, !.t.ret = "next",
                  !.t.msg = TickEvent(s, cab_id, target_lat, target_lng, "ArrivedDestination"),
                  !.fx = Append(@, Mark("destination_arrival", cab_id))]

\* "dlat**2" raises OverflowError
Overflows(d) == Abs(d) > SqrtMaxFloat

\* an exception that no handler catches: the greenlet ends
LoopError_Propagates(s, cab_id) ==
    LET s1 == Raised(s, cab_id)
    IN [s1 EXCEPT !.t.pc = "dead",
                  !.fx = Append(@, Mark("loop_error", cab_id))]

\* "except Exception as e: print('Simulation loop error:', e)": an exception
\* that leaves the for loop ends the iteration of "while True"; the cabs not
\* reached yet and the list updates are dropped
LoopError(s, cab_id) ==
    LET s1 == Raised(s, cab_id)
    IN [s1 EXCEPT !.t = [Asleep(s1.t) EXCEPT !.aborted = (s1.t.n # 0)],
                  !.fx = Append(@, Mark("loop_error", cab_id))]

\* an idle step that appends an event only for a cab that drifted
TickIdle_SilentUnlessAvailable(s, cab, dr) ==
    LET cab_id == cab.cab_id
        lat == cab.latitude
        lon == cab.longitude
        status == cab.status
    IN
    IF status = "Available"
    THEN LET nlat == Drifted(lat, dr[cab_id][1], MaxLat)
             nlon == Drifted(lon, dr[cab_id][2], MaxLon)
             s1 == update_cab_location(s, cab_id, nlat, nlon, NoStatus)
         IN [Emitted(s1, cab_id)
                EXCEPT !.t.updates = Append(@, TickEvent(s, cab_id, nlat, nlon, status)),
                       !.t.i = @ + 1]
    ELSE [s EXCEPT !.t.i = @ + 1]

\* idle wandering applied whatever the status of the cab
TickIdle_DriftsAlways(s, cab, dr) ==
    LET cab_id == cab.cab_id
        nlat == Drifted(cab.latitude, 1, MaxLat)
        nlon == Drifted(cab.longitude, 1, MaxLon)
        s1 == update_cab_location(s, cab_id, nlat, nlon, NoStatus)
    IN [Emitted(s1, cab_id)
           EXCEPT !.t.updates = Append(@, TickEvent(s, cab_id, nlat, nlon, cab.status)),
                  !.t.i = @ + 1]

\* "idle wandering for available cabs": a cab without a target drifts when it
\* is Available, and an event is appended to updates in either case
TickIdle(s, cab, dr) ==
    LET cab_id == cab.cab_id
        lat == cab.latitude
        lon == cab.longitude
        status == cab.status
    IN
    IF status = "Available"
    THEN LET nlat == Drifted(lat, dr[cab_id][1], MaxLat)
             nlon == Drifted(lon, dr[cab_id][2], MaxLon)
             s1 == update_cab_location(s, cab_id, nlat, nlon, NoStatus)
         IN [Emitted(s1, cab_id)
                EXCEPT !.t.updates = Append(@, TickEvent(s, cab_id, nlat, nlon, status)),
                       !.t.i = @ + 1]
    ELSE [Emitted(s, cab_id)
             EXCEPT !.t.updates = Append(@, TickEvent(s, cab_id, lat, lon, status)),
                    !.t.i = @ + 1]

\* the arrival test made with "<=": a cab at the threshold has arrived
TickCab_ArrivesAtThreshold(s, dr) ==
    LET cab == s.t.snap[s.t.i]
        cab_id == cab.cab_id
        lat == cab.latitude
        lon == cab.longitude
        status == cab.status
    IN
    IF lat = BadCoord \/ lon = BadCoord
    THEN [Raised(s, cab_id) EXCEPT !.t.i = @ + 1]
    ELSE IF cab_id \in DOMAIN s.tg
    THEN LET target == s.tg[cab_id]
             target_lat == target.target_lat
             target_lng == target.target_lng
             phase == target.phase
             dlat == target_lat - lat
             dlon == target_lng - lon
             d2 == Dist2(dlat, dlon)
         IN
         IF Overflows(dlat) \/ Overflows(dlon)
         THEN LoopError(s, cab_id)
         ELSE IF d2 <= ARRIVE_THRESHOLD * ARRIVE_THRESHOLD
         THEN IF phase = "to_pickup"
              THEN LET s1 == update_cab_status(s, cab_id, "Arrived", target_lat, target_lng)
                   IN [Emitted(s1, cab_id)
                          EXCEPT !.t.pc = "bcast", !.t.q = s.clients, !.t.ret = "switch",
                                 !.t.msg = TickEvent(s, cab_id, target_lat, target_lng, "Arrived"),
                                 !.t.target = <<target_lat, target_lng>>,
                                 !.fx = Append(@, Mark("pickup_arrival", cab_id))]
              ELSE TickArrivedDestination(s, cab_id, target_lat, target_lng)
         ELSE LET nlat == lat + StepToward(dlat, d2)
                  nlon == lon + StepToward(dlon, d2)
                  s1 == update_cab_location(s, cab_id, nlat, nlon, status)
                  broadcast_status == IF phase = "to_pickup" THEN "Enroute" ELSE "OnTrip"
              IN [Emitted(s1, cab_id)
                     EXCEPT !.t.updates = Append(@, TickEvent(s, cab_id, nlat, nlon, broadcast_status)),
                            !.t.i = @ + 1]
    ELSE TickIdle(s, cab, dr)

\* the body of "for cab in cabs" for the cab at s.t.i, up to the next call of
\* broadcast_to_all or the next iteration; dr is this tick's random drift
TickCab(s, dr) ==
    LET cab == s.t.snap[s.t.i]
        cab_id == cab.cab_id
        lat == cab.latitude
        lon == cab.longitude
        status == cab.status
    IN
    IF lat = BadCoord \/ lon = BadCoord
    THEN [Raised(s, cab_id) EXCEPT !.t.i = @ + 1]
    ELSE IF cab_id \in DOMAIN s.tg
    THEN LET target == s.tg[cab_id]
             target_lat == target.target_lat
             target_lng == target.target_lng
             phase == target.phase
             dlat == target_lat - lat
             dlon == target_lng - lon
             d2 == Dist2(dlat, dlon)
         IN
         IF Overflows(dlat) \/ Overflows(dlon)
         THEN LoopError(s, cab_id)
         ELSE IF d2 < ARRIVE_THRESHOLD * ARRIVE_THRESHOLD
         THEN IF phase = "to_pickup"
              THEN LET s1 == update_cab_status(s, cab_id, "Arrived", target_lat, target_lng)
                   IN [Emitted(s1, cab_id)
                          EXCEPT !.t.pc = "bcast", !.t.q = s.clients, !.t.ret = "switch",
                                 !.t.msg = TickEvent(s, cab_id, target_lat, target_lng, "Arrived"),
                                 !.t.target = <<target_lat, target_lng>>,
                                 !.fx = Append(@, Mark("pickup_arrival", cab_id))]
              ELSE TickArrivedDestination(s, cab_id, target_lat, target_lng)
         ELSE LET nlat == lat + StepToward(dlat, d2)
                  nlon == lon + StepToward(dlon, d2)
                  s1 == update_cab_location(s, cab_id, nlat, nlon, status)
                  broadcast_status == IF phase = "to_pickup" THEN "Enroute" ELSE "OnTrip"
              IN [Emitted(s1, cab_id)
                     EXCEPT !.t.updates = Append(@, TickEvent(s, cab_id, nlat, nlon, broadcast_status)),
                            !.t.i = @ + 1]
    ELSE TickIdle(s, cab, dr)

\* freeing the cab without writing its status
TickFree_KeepsStatus(s, cab) ==
    [s EXCEPT !.tg = DictPop(@, cab.cab_id),
              !.t.pc = "bcast", !.t.q = s.clients, !.t.ret = "next",
              !.t.msg = TickEvent(s, cab.cab_id, cab.latitude, cab.longitude, "Available"),
              !.fx = Append(@, Mark("switch_free", cab.cab_id))]

\* a freed cab whose Available event is never broadcast
TickFree_Silent(s, cab) ==
    LET s1 == update_cab_status(s, cab.cab_id, "Available", NoCoord, NoCoord)
    IN [s1 EXCEPT !.tg = DictPop(@, cab.cab_id),
                  !.t.pc = "next",
                  !.fx = Append(@, Mark("switch_free", cab.cab_id))]

\* "no ride, free cab" and "invalid destination; freeing cab"
TickFree(s, cab) ==
    LET s1 == update_cab_status(s, cab.cab_id, "Available", NoCoord, NoCoord)
    IN [s1 EXCEPT !.tg = DictPop(@, cab.cab_id),
                  !.t.pc = "bcast", !.t.q = s.clients, !.t.ret = "next",
                  !.t.msg = TickEvent(s, cab.cab_id, cab.latitude, cab.longitude, "Available"),
                  !.fx = Append(@, Mark("switch_free", cab.cab_id))]

\* a pickup arrival that waits for a command instead of switching
TickSwitch_Waits(s) == [s EXCEPT !.t.pc = "next"]

\* "switch to destination (if ride exists)", the code after the Arrived broadcast
TickSwitch(s) ==
    LET cab == s.t.snap[s.t.i]
        cab_id == cab.cab_id
        ride == get_ride_by_cab_id(rides, cab_id)
    IN
    IF ride.found /\ ride.end.kind # "missing"
    THEN IF ride.end.kind = "point"
         THEN LET s1 == [s EXCEPT !.tg = DictSet(@, cab_id,
                                      [target_lat |-> ride.end.pt[1],
                                       target_lng |-> ride.end.pt[2],
                                       phase |-> "to_destination"])]
                  s2 == update_cab_status(s1, cab_id, "OnTrip", s.t.target[1], s.t.target[2])
              IN [s2 EXCEPT !.t.pc = "next",
                            !.fx = Append(@, Mark("switch_destination", cab_id))]
         ELSE TickFree(s, cab)
    ELSE TickFree(s, cab)

\* "send updates to websocket clients", up to the next client.send
TickBatch(s) ==
    IF s.t.q = <<>>
    THEN [s EXCEPT !.t = Asleep(s.t)]
    ELSE LET client == Head(s.t.q)
         IN IF s.t.j = 1 /\ Closed(client)
            THEN [s EXCEPT !.clients = Remove(@, client), !.t.q = Tail(@)]
            ELSE IF s.t.j > Len(s.t.updates)
                 THEN [s EXCEPT !.t.q = Tail(@), !.t.j = 1]
                 ELSE [s EXCEPT !.t.pc = "send_batch"]

\* one transfer of control inside the tick
TickStep(s, dr) ==
    CASE s.t.pc = "cab" ->
            IF s.t.i > Len(s.t.snap)
            THEN [s EXCEPT !.t.pc = "batch", !.t.q = s.clients, !.t.j = 1]
            ELSE TickCab(s, dr)
      [] s.t.pc = "bcast" ->
            LET r == SkipClosed(s.clients, s.t.q)
            IN [s EXCEPT !.clients = r.clients, !.t.q = r.q,
                         !.t.pc = IF r.q = <<>> THEN s.t.ret ELSE "send_bcast"]
      [] s.t.pc = "switch" -> TickSwitch(s)
      [] s.t.pc = "next" -> [s EXCEPT !.t.pc = "cab", !.t.i = @ + 1]
      [] s.t.pc = "batch" -> TickBatch(s)

\* the tick runs until it is suspended in a send or in gevent.sleep, or until
\* its greenlet has ended
RECURSIVE TickRun(_, _)
TickRun(s, dr) ==
    IF s.t.pc \in {"send_bcast", "send_batch", "sleep", "dead"}
    THEN s
    ELSE CHOOSE r \in {TickRun(s1, dr) : s1 \in {TickStep(s, dr)}} : TRUE

Bundle == [cabs |-> cabs, tg |-> active_cab_targets, clients |-> clients,
           t |-> tick, fx |-> <<>>, trace |-> trace, failing |-> {}]

Commit(s) ==
    /\ cabs' = s.cabs
    /\ active_cab_targets' = s.tg
    /\ clients' = s.clients
    /\ tick' = s.t
    /\ fx' = s.fx
    /\ trace' = s.trace

\* the values random.uniform returns while the for loop runs on from index
\* from of the snapshot: the code draws them only for a cab it has yet to
\* process and whose snapshot status is Available
DriftChoices(snap, from) ==
    {dr \in [DOMAIN cabs -> (-DRIFT..DRIFT) \X (-DRIFT..DRIFT)] :
        \A c \in DOMAIN cabs :
            (~ \E i \in from..Len(snap) :
                   snap[i].cab_id = c /\ snap[i].status = "Available")
            => dr[c] = <<0, 0>>}

\* cabs = db.get_all_cabs(): the rows of the cabs table, in cab_id order
get_all_cabs == [c \in 1..Cardinality(DOMAIN cabs) |->
                    [cab_id |-> c, latitude |-> cabs[c].latitude,
                     longitude |-> cabs[c].longitude, status |-> cabs[c].status]]

\* the sqlite3 errors while the for loop runs on from index from of the
\* snapshot: the set of cabs whose UPDATE fails. They are drawn only where
\* ticks are counted, and at most one statement fails in a run
FaultChoices(snap, from) ==
    IF tick.n = 0 THEN {{}} ELSE {{}} \cup {{snap[i].cab_id} : i \in from..Len(snap)}

\* the sqlite3 error of the SELECT of get_all_cabs, written as cab 0
ReadFault == IF tick.n = 0 THEN {} ELSE {{0}}

\* what db.get_all_cabs() returns: [] after an sqlite3.Error
Snapshot(failing) == IF 0 \in failing THEN <<>> ELSE get_all_cabs

\* gevent.sleep(2) returns: a new iteration of "while True"
TickWake ==
    /\ tick.pc = "sleep"
    /\ \E failing \in FaultChoices(get_all_cabs, 1) \cup ReadFault :
          \E dr \in DriftChoices(Snapshot(failing), 1) :
             \E s \in {TickRun([Bundle EXCEPT !.t = [Awake(tick, Snapshot(failing))
                                                          EXCEPT !.unread = 0 \in failing],
                                                !.failing = failing], dr)} :
                Commit(s)
    /\ UNCHANGED <<graph, rides, conn, handler, order>>

\* a client.send of the tick returns or raises, and the tick runs on
TickSend ==
    /\ tick.pc \in {"send_bcast", "send_batch"}
    /\ LET client == Head(tick.q)
           msg == IF tick.pc = "send_bcast" THEN tick.msg ELSE tick.updates[tick.j]
           r == AfterSend(clients, client, msg)
           s0 == [Bundle EXCEPT !.clients = r.clients, !.fx = r.fx]
           s1 == IF tick.pc = "send_bcast"
                 THEN [s0 EXCEPT !.t.pc = "bcast", !.t.q = Tail(@)]
                 ELSE [s0 EXCEPT !.t.pc = "batch", !.t.j = @ + 1]
       IN \E failing \in FaultChoices(tick.snap, tick.i) :
             \E dr \in DriftChoices(tick.snap, tick.i) :
                \E s \in {TickRun([s1 EXCEPT !.failing = failing], dr)} : Commit(s)
    /\ UNCHANGED <<graph, rides, conn, handler, order>>

\* ------------------------------------------------------------ dispatch API
\* a booking that targets the pickup point in phase to_destination
BookTarget_WrongPhase(start) ==
    [target_lat |-> start[1], target_lng |-> start[2], phase |-> "to_destination"]

\* the movement target book_cab assigns: the pickup point, phase to_pickup
BookTarget(start) ==
    [target_lat |-> start[1], target_lng |-> start[2], phase |-> "to_pickup"]

\* POST /api/book_cab with all fields present; ids: the request carries
\* primary_request_id and new_request_id; resp: the HTTP status returned
book_cab(cab_id, start, end, is_shared, ids, resp) ==
    IF cab_id \notin DOMAIN cabs
    THEN /\ resp = 404
         /\ fx' = <<>>
         /\ UNCHANGED <<graph, cabs, rides, active_cab_targets, clients, conn, tick, handler,
                        order, trace>>
    ELSE LET s1 == update_cab_status(Bundle, cab_id,
                                     IF is_shared THEN "Shared" ELSE "Busy",
                                     NoCoord, NoCoord)
             booked == ~is_shared \/ (ids /\ confirm_shared_ride)
             inorder == booked /\ order[cab_id] = "idle"
         IN
         /\ resp = IF booked THEN 200 ELSE IF ~ids THEN 400 ELSE 500
         /\ cabs' = s1.cabs
         /\ rides' = IF booked THEN add_ride(rides, cab_id, start, end) ELSE rides
         /\ active_cab_targets' =
               IF booked
               THEN DictSet(active_cab_targets, cab_id, BookTarget(start))
               ELSE active_cab_targets
         /\ order' = [order EXCEPT ![cab_id] = IF inorder THEN "assigned" ELSE "broken"]
         /\ trace' = [trace EXCEPT ![cab_id] =
                         IF inorder
                         THEN TraceAdd(<<cabs[cab_id].status>>, s1.cabs[cab_id].status)
                         ELSE <<>>]
         /\ fx' = IF booked THEN <<BookedResponse(cab_id, start)>> ELSE <<>>
         /\ UNCHANGED <<graph, clients, conn, tick, handler>>

\* POST /api/reset_cab_status; cab_id = 0: the request names no cab
reset_cab_status(cab_id, resp) ==
    LET s1 == IF cab_id # 0
              THEN update_cab_status(Bundle, cab_id, "Available", NoCoord, NoCoord)
              ELSE reset_all_cab_statuses(Bundle)
        hit == IF cab_id # 0 THEN {cab_id} \cap DOMAIN cabs ELSE DOMAIN cabs
    IN
    /\ resp = 200
    /\ cabs' = s1.cabs
    /\ order' = [c \in DOMAIN order |-> IF c \in hit THEN "broken" ELSE order[c]]
    /\ trace' = [c \in DOMAIN trace |-> IF c \in hit THEN <<>> ELSE trace[c]]
    /\ fx' = <<>>
    /\ UNCHANGED <<graph, rides, active_cab_targets, clients, conn, tick, handler>>

\* GET /api/complete_ride/<cab_id>, up to the first client.send of its broadcast
complete_ride(cab_id, resp) ==
    LET s1 == update_cab_status(Bundle, cab_id, "Available", NoCoord, NoCoord)
        ride_details == get_ride_by_cab_id(rides, cab_id)
        kind == ride_details.end.kind
        s2 == IF ride_details.found /\ kind # "missing"
              THEN IF kind = "point"
                   THEN update_cab_location(s1, cab_id, ride_details.end.pt[1],
                                            ride_details.end.pt[2], NoStatus)
                   ELSE update_cab_location(s1, cab_id, BadCoord, BadCoord, NoStatus)
              ELSE s1
        raised == ride_details.found /\ kind = "unparseable"
        msg == IF ride_details.found /\ kind = "point"
               THEN Event(cab_id, ride_details.end.pt[1], ride_details.end.pt[2], "Available")
               ELSE Event(cab_id, 0, 0, "Available")
        r == IF raised
             THEN [clients |-> clients, q |-> <<>>]
             ELSE SkipClosed(clients, clients)
        inorder == ~raised /\ order[cab_id] = "assigned"
    IN
    /\ handler.pc = "idle"
    /\ resp = IF raised THEN 500 ELSE 200
    /\ cabs' = s2.cabs
    /\ active_cab_targets' = DictPop(active_cab_targets, cab_id)
    /\ clients' = r.clients
    /\ handler' = IF r.q = <<>> THEN HandlerIdle ELSE [pc |-> "send", q |-> r.q, msg |-> msg]
    /\ order' = [c \in DOMAIN order |->
                    IF c # cab_id THEN order[c] ELSE IF inorder THEN "idle" ELSE "broken"]
    /\ trace' = [c \in DOMAIN trace |->
                    IF c # cab_id THEN trace[c] ELSE IF inorder THEN s2.trace[c] ELSE <<>>]
    /\ fx' = <<>>
    /\ UNCHANGED <<graph, rides, conn, tick>>

\* a client.send of complete_ride's broadcast_to_all returns or raises, and the
\* broadcast runs on to its next send or to its end
HandlerSend ==
    /\ handler.pc = "send"
    /\ LET client == Head(handler.q)
           a == AfterSend(clients, client, handler.msg)
           r == SkipClosed(a.clients, Tail(handler.q))
       IN /\ clients' = r.clients
          /\ fx' = a.fx
          /\ handler' = IF r.q = <<>> THEN HandlerIdle ELSE [handler EXCEPT !.q = r.q]
    /\ UNCHANGED <<graph, cabs, rides, active_cab_targets, conn, tick, order, trace>>

\* ------------------------------------------------------ websocket endpoint
\* cab_location_updates(ws) starts: clients.append(ws)
cab_location_updates(ws) ==
    /\ conn[ws] = "new"
    /\ conn' = [conn EXCEPT ![ws] = "open"]
    /\ clients' = Append(clients, ws)
    /\ fx' = <<>>
    /\ UNCHANGED <<graph, cabs, rides, active_cab_targets, tick, handler, order, trace>>

\* the peer of an open connection goes away: sends raise from now on
ConnectionBreaks(ws) ==
    /\ conn[ws] = "open"
    /\ conn' = [conn EXCEPT ![ws] = "broken"]
    /\ fx' = <<>>
    /\ UNCHANGED <<graph, cabs, rides, active_cab_targets, clients, tick, handler, order, trace>>

\* ws.closed becomes true
ConnectionCloses(ws) ==
    /\ conn[ws] \in {"open", "broken"}
    /\ conn' = [conn EXCEPT ![ws] = "closed"]
    /\ fx' = <<>>
    /\ UNCHANGED <<graph, cabs, rides, active_cab_targets, clients, tick, handler, order, trace>>

\* the loop left as soon as the peer is gone, before ws.closed is set
cab_location_updates_finally_OnBreak(ws) ==
    /\ conn[ws] \in {"broken", "closed"}
    /\ conn' = [conn EXCEPT ![ws] = "done"]
    /\ clients' = Remove(clients, ws)
    /\ fx' = <<>>
    /\ UNCHANGED <<graph, cabs, rides, active_cab_targets, tick, handler, order, trace>>

\* cab_location_updates(ws) leaves "while not ws.closed": clients.remove(ws)
cab_location_updates_finally(ws) ==
    /\ conn[ws] = "closed"
    /\ conn' = [conn EXCEPT ![ws] = "done"]
    /\ clients' = Remove(clients, ws)
    /\ fx' = <<>>
    /\ UNCHANGED <<graph, cabs, rides, active_cab_targets, tick, handler, order, trace>>

\* ------------------------------------------------------------ specification
\* the sample cabs of initialize_db, all Available, on the model's map
SampleCabs(fleet) ==
    [c \in fleet |-> [latitude |-> 1, longitude |-> c, status |-> "Available"]]

\* the rides a table left by an earlier version of the program may hold
LegacyRows(fleet) ==
    UNION {[S -> {[start |-> <<1, 1>>, end |-> e] : e \in LegacyEnds}] : S \in SUBSET fleet}

\* the state after import of app.py: fleet is the set of registered cabs, live
\* the websockets that will connect, tracing whether order and trace are kept
InitWith(fleet, schemas, live, tracing) ==
    /\ cabs = SampleCabs(fleet)
    /\ rides \in {r \in {[schema |-> "current", rows |-> <<>>]}
                        \cup {[schema |-> "legacy", rows |-> rw] : rw \in LegacyRows(fleet)} :
                     r.schema \in schemas}
    /\ active_cab_targets = <<>>
    /\ clients = <<>>
    /\ conn = [ws \in Conns |-> IF ws \in live THEN "new" ELSE "done"]
    /\ tick = TickAsleep
    /\ handler = HandlerIdle
    /\ fx = <<>>
    /\ order = [c \in Cabs |-> IF tracing THEN "idle" ELSE "broken"]
    /\ trace = [c \in Cabs |-> <<>>]
    /\ graph = EmptyGraph

Init == InitWith({1}, {"current", "legacy"}, {1}, FALSE)

\* the same, with the history of commands and status writes kept
InitTrace == InitWith({1}, {"current", "legacy"}, {1}, TRUE)

Responses == {200, 400, 404, 500}

\* POST /api/book_cab. A request for an unknown cab is answered before any
\* other field is used, and the request ids are read only "if is_shared": the
\* fields a path does not read are left at one value
BookCab ==
    \/ \E cab_id \in CabIds \ DOMAIN cabs, resp \in Responses :
          book_cab(cab_id, <<1, 2>>, <<1, MaxLon>>, FALSE, FALSE, resp)
    \/ \E cab_id \in DOMAIN cabs, start \in PickupPoints, end \in EndPoints,
          resp \in Responses :
          book_cab(cab_id, start, end, FALSE, FALSE, resp)
    \/ \E cab_id \in DOMAIN cabs, start \in PickupPoints, end \in EndPoints,
          ids \in BOOLEAN, resp \in Responses :
          book_cab(cab_id, start, end, TRUE, ids, resp)

ResetCabStatus ==
    \E cab_id \in CabIds \cup {0}, resp \in Responses : reset_cab_status(cab_id, resp)

CompleteRide ==
    \E cab_id \in CabIds, resp \in Responses : complete_ride(cab_id, resp)

Subscribe == \E ws \in Conns : cab_location_updates(ws)

Unsubscribe == \E ws \in Conns : cab_location_updates_finally(ws)

Network == \E ws \in Conns : ConnectionBreaks(ws) \/ ConnectionCloses(ws)

Next ==
    \/ TickWake
    \/ TickSend
    \/ BookCab
    \/ ResetCabStatus
    \/ CompleteRide
    \/ HandlerSend
    \/ Subscribe
    \/ Unsubscribe
    \/ Network

Spec == Init /\ [][Next]_vars

SpecTrace == InitTrace /\ [][Next]_vars

\* ---------------------------------------- specification of the broadcaster
\* Two states the program reaches, in which every tick publishes and no cab
\* moves. In the first, on a legacy rides table, cab 1 was booked, driven to
\* its pickup and on to its destination, and waits there for complete_ride:
\* every tick broadcasts ArrivedDestination. In the second a shared booking of
\* cab 1 was refused after its status was written: every tick sends the
\* cab's row in the batch. No websocket has connected yet.
InitB ==
    /\ \/ /\ cabs = [c \in {1} |-> [latitude |-> 1, longitude |-> MaxLon,
                                      status |-> "Arrived"]]
          /\ rides = [schema |-> "legacy",
                      rows |-> [c \in {1} |-> [start |-> <<1, 1>>,
                                               end |-> [kind |-> "point",
                                                        pt |-> <<1, MaxLon>>]]]]
          /\ active_cab_targets =
                [c \in {1} |-> [target_lat |-> 1, target_lng |-> MaxLon,
                                phase |-> "to_destination"]]
       \/ /\ cabs = [c \in {1} |-> [latitude |-> 1, longitude |-> 1, status |-> "Shared"]]
          /\ rides = [schema |-> "current", rows |-> <<>>]
          /\ active_cab_targets = <<>>
    /\ clients = <<>>
    /\ conn = [ws \in Conns |-> "new"]
    /\ tick = TickAsleep
    /\ handler = HandlerIdle
    /\ fx = <<>>
    /\ order = [c \in Cabs |-> "broken"]
    /\ trace = [c \in Cabs |-> <<>>]
    /\ graph = EmptyGraph

\* GET /api/complete_ride/<cab_id> for a cab that is not registered: nothing is
\* written, and the Available event is published
CompleteRideUnknown ==
    \E cab_id \in CabIds \ DOMAIN cabs, resp \in Responses : complete_ride(cab_id, resp)

NextB ==
    \/ TickWake
    \/ TickSend
    \/ CompleteRideUnknown
    \/ HandlerSend
    \/ Subscribe
    \/ Unsubscribe
    \/ Network

SpecB == InitB /\ [][NextB]_vars

\* ------------------------------------------- specification of tick failures
\* Two registered cabs. Cab 1 is Available; cab 2 is Shared, the status a
\* refused shared booking leaves, and its row is well formed or holds a
\* latitude that float() rejects (cab_register stores what the request
\* carries). The rides table is one an earlier version left, with a ride of
\* each cab, so that a booked cab is driven to its pickup and on to the end
\* point of that ride. Ticks are counted, sqlite3 errors happen, and a booking
\* may name a pickup latitude of 1e200.
Fleet == {1, 2}

FarPickup == <<HugeCoord, 2>>

FleetRows(c) ==
    IF c = 1
    THEN {[latitude |-> 1, longitude |-> 2, status |-> "Available"]}
    ELSE {[latitude |-> lat, longitude |-> 2, status |-> "Shared"] : lat \in {1, BadCoord}}

InitFleet(fleet, schemas) ==
    /\ cabs \in {f \in [fleet -> UNION {FleetRows(c) : c \in fleet}] :
                   \A c \in fleet : f[c] \in FleetRows(c)}
    /\ rides \in {r \in {[schema |-> "current", rows |-> <<>>],
                          [schema |-> "legacy",
                           rows |-> [c \in fleet |-> [start |-> <<1, 1>>,
                                                      end |-> [kind |-> "point",
                                                               pt |-> <<1, 4>>]]]]} :
                     r.schema \in schemas}
    /\ active_cab_targets = <<>>
    /\ clients = <<>>
    /\ conn = [ws \in Conns |-> IF ws = 1 THEN "new" ELSE "done"]
    /\ tick = [TickAsleep EXCEPT !.n = TickPeriod]
    /\ handler = HandlerIdle
    /\ fx = <<>>
    /\ order = [c \in fleet |-> "broken"]
    /\ trace = [c \in fleet |-> <<>>]
    /\ graph = EmptyGraph

InitF == InitFleet(Fleet, {"legacy"})

BookCabFar ==
    \E cab_id \in DOMAIN cabs, resp \in Responses :
        book_cab(cab_id, FarPickup, <<1, MaxLon>>, FALSE, FALSE, resp)

BookCabNear == \E resp \in Responses : book_cab(1, <<1, 2>>, <<1, 4>>, FALSE, FALSE, resp)

NextF ==
    \/ TickWake
    \/ TickSend
    \/ BookCabFar
    \/ BookCabNear
    \/ Subscribe
    \/ Unsubscribe
    \/ Network

SpecF == InitF /\ [][NextF]_vars

\* One registered cab and the rides table of initialize_db; gevent runs a
\* greenlet whose sleep is over, and a client.send returns or raises
NextFFair ==
    \/ TickWake
    \/ TickSend
    \/ BookCabFar
    \/ Subscribe
    \/ Unsubscribe
    \/ Network

SpecFFair ==
    /\ InitFleet({1}, {"current"})
    /\ [][NextFFair]_vars
    /\ WF_vars(TickWake)
    /\ WF_vars(TickSend)

\* ------------------------------------------------------------------ claims
HasTarget(c) == c \in DOMAIN active_cab_targets

Position(c) == <<cabs[c].latitude, cabs[c].longitude>>

TargetPoint(c) == <<active_cab_targets[c].target_lat, active_cab_targets[c].target_lng>>

Booked(c) ==
    \E start \in PickupPoints, end \in EndPoints, is_shared \in BOOLEAN, ids \in BOOLEAN :
        book_cab(c, start, end, is_shared, ids, 200)

Completed(c) == \E resp \in Responses : complete_ride(c, resp)

\* the statuses the cabs table holds, in order, for one trip of the state
\* machine Available -> Enroute -> Arrived -> OnTrip -> ArrivedDestination ->
\* Available: the table names Enroute "Busy" and ArrivedDestination "Arrived"
PhaseSequence == <<"Available", "Busy", "Arrived", "OnTrip", "Arrived", "Available">>

\* C1: for every vehicle, when book_cab and complete_ride were issued in that
\* order, with ticks in between that brought the vehicle to its pickup, the
\* statuses the vehicle passed through are exactly Available, Enroute, Arrived,
\* OnTrip, ArrivedDestination, Available
C1_PhaseSequence ==
    \A c \in DOMAIN cabs :
        (order[c] = "idle" /\ "Arrived" \in Range(trace[c])) => trace[c] = PhaseSequence

PickupArrival(c) ==
    /\ tick.pc = "send_bcast"
    /\ tick.ret = "switch"
    /\ tick.snap[tick.i].cab_id = c

UsableRide(c) ==
    LET ride == get_ride_by_cab_id(rides, c)
    IN ride.found /\ ride.end.kind = "point"

AtDestination(c) ==
    /\ HasTarget(c)
    /\ active_cab_targets[c].phase = "to_destination"
    /\ Position(c) = TargetPoint(c)

\* C3: a ToDestination target is kept by every tick, a vehicle that is at its
\* destination stays there, and the target is removed only by complete_ride
C3_DestinationTargetKept ==
    [][\A c \in DOMAIN cabs :
          (HasTarget(c) /\ active_cab_targets[c].phase = "to_destination")
          => \/ /\ (HasTarget(c))'
                /\ active_cab_targets'[c] = active_cab_targets[c]
                /\ AtDestination(c) => (AtDestination(c))'
             \/ Completed(c)
             \/ Booked(c) /\ (HasTarget(c))']_vars

C3_Witness ==
    \E c \in DOMAIN cabs :
        /\ Mark("destination_arrival", c) \in Range(fx)
        /\ AtDestination(c)
        /\ cabs[c].status = "Arrived"

\* C4: a tick that read a vehicle's Target before a command ran never writes
\* over the Target that command left: it removes or replaces no Target set by
\* book_cab and re-creates none cleared by complete_ride
C4_TickWritesTheTargetItRead ==
    [][\A c \in DOMAIN cabs :
          (/\ PickupArrival(c)
           /\ tick' # tick
           /\ ~(HasTarget(c) /\ active_cab_targets[c] = BookTarget(tick.target)))
          => /\ (HasTarget(c))' = HasTarget(c)
             /\ HasTarget(c) => active_cab_targets'[c] = active_cab_targets[c]]_vars

\* C5: the phase of a vehicle's Target never goes back from ToDestination to
\* ToPickup
C5_PhaseNeverBackward ==
    [][\A c \in DOMAIN cabs :
          (HasTarget(c) /\ active_cab_targets[c].phase = "to_destination" /\ (HasTarget(c))')
          => active_cab_targets'[c].phase = "to_destination"]_vars

C7_AssignSetsPickupTarget ==
    [][\A c \in DOMAIN cabs :
          /\ \A start \in PickupPoints :
                BookedResponse(c, start) \in Range(fx')
                => /\ (HasTarget(c))'
                   /\ active_cab_targets'[c].phase = "to_pickup"
                   /\ (TargetPoint(c))' = start
                   /\ cabs'[c].status # "Available"
          /\ (/\ (HasTarget(c))'
              /\ active_cab_targets'[c].phase = "to_pickup"
              /\ ~(HasTarget(c) /\ active_cab_targets[c] = active_cab_targets'[c]))
             => Booked(c)]_vars

C7_Witness ==
    \E c \in DOMAIN cabs, start \in PickupPoints :
        /\ BookedResponse(c, start) \in Range(fx)
        /\ HasTarget(c)
        /\ active_cab_targets[c].phase = "to_pickup"
        /\ TargetPoint(c) = start
        /\ cabs[c].status = "Busy"

\* C8: after a successful complete_ride the vehicle has no Target, status
\* Available and the position of the end point of its most recent trip
C8_CompleteSnapsToTripEnd ==
    [][\A c \in DOMAIN cabs :
          (complete_ride(c, 200) /\ c \in DOMAIN rides.rows
           /\ rides.rows[c].end.kind = "point")
          => /\ ~(HasTarget(c))'
             /\ cabs'[c].status = "Available"
             /\ (Position(c))' = rides.rows[c].end.pt]_vars

\* ------------------------------------------------------ claims: broadcaster
Subscribed(ws) == ws \in Range(clients)

\* the first n elements of a list
Prefix(q, n) == SubSeq(q, 1, n)

\* C9: a publish delivers to every subscriber of its copy of the active set
\* whose connection is open and keeps it subscribed, removes the subscribers
\* that are closed or whose send fails, and passes over no subscriber that is
\* not closed
C9_PublishReachesEverySubscriber ==
    [][/\ (handler.pc = "send" /\ handler' # handler)
          => LET client == Head(handler.q)
                 rest == Tail(handler.q)
                 left == IF handler'.pc = "send" THEN handler'.q ELSE <<>>
                 skipped == Prefix(rest, Len(rest) - Len(left))
             IN /\ SendSucceeds(client)
                   => /\ Delivery(client, handler.msg) \in Range(fx')
                      /\ Subscribed(client) => client \in Range(clients')
                /\ ~SendSucceeds(client) => client \notin Range(clients')
                /\ rest = skipped \o left
                /\ \A ws \in Range(skipped) : Closed(ws) /\ ws \notin Range(clients')
       /\ (tick.pc \in {"send_bcast", "send_batch"} /\ tick' # tick)
          => LET client == Head(tick.q)
                 msg == IF tick.pc = "send_bcast" THEN tick.msg ELSE tick.updates[tick.j]
             IN /\ SendSucceeds(client)
                   => /\ Delivery(client, msg) \in Range(fx')
                      /\ Subscribed(client) => client \in Range(clients')
                /\ ~SendSucceeds(client) => client \notin Range(clients')
       /\ (handler.pc = "idle" /\ handler'.pc = "send")
          => /\ \A ws \in Range(clients) : Closed(ws) \/ ws \in Range(handler'.q)
             /\ \A ws \in Range(clients) \ Range(handler'.q) : ws \notin Range(clients')
       /\ (tick.pc = "sleep" /\ tick'.pc \in {"send_bcast", "send_batch"})
          => /\ \A ws \in Range(clients) : Closed(ws) \/ ws \in Range(tick'.q)
             /\ \A ws \in Range(clients) \ Range(tick'.q) : ws \notin Range(clients')]_vars

\* a publish delivered to one subscriber, which is still subscribed, after the
\* send to another one failed and removed it
C9_Witness ==
    \E ws \in Conns, gone \in Conns :
        /\ \E d \in Range(fx) : d.kind = "sent" /\ d.to = ws
        /\ Subscribed(ws)
        /\ conn[gone] = "broken"
        /\ ~Subscribed(gone)

\* C10: under every interleaving of subscribe, unsubscribe and publish, a
\* subscriber whose connection is open is never dropped from the active set,
\* subscribing or unsubscribing one connection leaves every other subscriber
\* in place, and no connection is in the active set twice
C10_SubscribersSafe ==
    [][/\ \A ws \in Conns : (Subscribed(ws) /\ conn[ws] = "open") => (Subscribed(ws))'
       /\ \A ws \in Conns :
             (cab_location_updates(ws) \/ cab_location_updates_finally(ws))
             => SelectSeq(clients', LAMBDA x : x # ws) = SelectSeq(clients, LAMBDA x : x # ws)
       /\ \A i, j \in DOMAIN clients' : clients'[i] = clients'[j] => i = j]_vars

C10_Witness ==
    /\ handler.pc = "send"
    /\ tick.pc \in {"send_bcast", "send_batch"}
    /\ \E ws \in Conns : conn[ws] = "done"
    /\ \E ws \in Conns : conn[ws] = "open" /\ Subscribed(ws) /\ ws \notin Range(handler.q)


\* ------------------------------------------------------------- heap_utils
\* calculate_distance(lat1, lon1, lat2, lon2): the haversine distance, which
\* on a map of this size orders pairs of points as the straight-line distance
\* does; the square of that distance stands for it
calculate_distance(lat1, lon1, lat2, lon2) == Dist2(lat2 - lat1, lon2 - lon1)

\* MinHeap: self.heap is a Python list, index 0 first; At reads heap[i]
At(heap, i) == heap[i + 1]

parent(i) == (i - 1) \div 2

left_child(i) == 2 * i + 1

right_child(i) == 2 * i + 2

swap(heap, i, j) ==
    [k \in DOMAIN heap |-> IF k = i + 1 THEN heap[j + 1]
                           ELSE IF k = j + 1 THEN heap[i + 1]
                           ELSE heap[k]]

RECURSIVE heapify_up(_, _)
heapify_up(heap, i) ==
    IF i > 0 /\ At(heap, parent(i)).distance > At(heap, i).distance
    THEN heapify_up(swap(heap, i, parent(i)), parent(i))
    ELSE heap

\* a heapify_down that looks at the left child only
RECURSIVE heapify_down_LeftOnly(_, _)
heapify_down_LeftOnly(heap, i) ==
    LET size == Len(heap)
        left == left_child(i)
        min_index == IF left < size /\ At(heap, left).distance < At(heap, i).distance
                     THEN left ELSE i
    IN IF i # min_index
       THEN heapify_down_LeftOnly(swap(heap, i, min_index), min_index)
       ELSE heap

RECURSIVE heapify_down(_, _)
heapify_down(heap, i) ==
    LET size == Len(heap)
        left == left_child(i)
        right == right_child(i)
        m1 == IF left < size /\ At(heap, left).distance < At(heap, i).distance
              THEN left ELSE i
        min_index == IF right < size /\ At(heap, right).distance < At(heap, m1).distance
                     THEN right ELSE m1
    IN IF i # min_index
       THEN heapify_down(swap(heap, i, min_index), min_index)
       ELSE heap

\* an insert that appends without restoring the heap order
insert_Unsifted(heap, cab, distance) ==
    Append(heap, [cab |-> cab, distance |-> distance])

insert(heap, cab, distance) ==
    LET appended == Append(heap, [cab |-> cab, distance |-> distance])
    IN heapify_up(appended, Len(appended) - 1)

\* an extract_min that leaves the moved last entry at the root
extract_min_Unsifted(heap) ==
    LET size == Len(heap)
        moved == [heap EXCEPT ![1] = heap[size]]
    IN [min_cab |-> heap[1], heap |-> SubSeq(moved, 1, size - 1)]

\* extract_min on a heap that is not empty: the entry returned and the heap left
extract_min(heap) ==
    LET size == Len(heap)
        moved == [heap EXCEPT ![1] = heap[size]]
        popped == SubSeq(moved, 1, size - 1)
    IN [min_cab |-> heap[1],
        heap |-> IF size - 1 > 0 THEN heapify_down(popped, 0) ELSE popped]

\* "for cab in cabs: if cab['status'] == 'Available': min_heap.insert(...)"
RECURSIVE InsertAvailable(_, _, _, _)
InsertAvailable(heap, cablist, user_x, user_y) ==
    IF cablist = <<>>
    THEN heap
    ELSE LET cab == Head(cablist)
         IN InsertAvailable(
               IF cab.status = "Available"
               THEN insert(heap, cab,
                           calculate_distance(user_x, user_y, cab.latitude, cab.longitude))
               ELSE heap,
               Tail(cablist), user_x, user_y)

\* "for _ in range(num_cabs)": extract while the heap is not empty
RECURSIVE ExtractNearest(_, _)
ExtractNearest(heap, n) ==
    IF n <= 0 \/ heap = <<>>
    THEN <<>>
    ELSE LET r == extract_min(heap)
         IN <<[cab |-> r.min_cab.cab, distance |-> r.min_cab.distance]>>
               \o ExtractNearest(r.heap, n - 1)

find_nearest_cab(cablist, user_x, user_y, num_cabs) ==
    ExtractNearest(InsertAvailable(<<>>, cablist, user_x, user_y), num_cabs)

\* ------------------------------------------------------------------ graph
\* float('inf'): larger than the length of any path of the graphs drawn
Infinity == 1000000

\* None, as the value of previous[vertex]; a vertex is a pair
None == <<>>

add_vertex(g, vertex) ==
    IF vertex \in DOMAIN g.vertices
    THEN g
    ELSE [vertices |-> DictSet(g.vertices, vertex, <<>>),
          edges |-> DictSet(g.edges, vertex, <<>>)]

\* add_edge(vertex1, vertex2, weight) with the weight given
add_edge(g, vertex1, vertex2, weight) ==
    LET g1 == add_vertex(add_vertex(g, vertex1), vertex2)
        v1 == [g1.vertices EXCEPT ![vertex1] = Append(@, vertex2)]
        e1 == [g1.edges EXCEPT ![vertex1] = DictSet(@, vertex2, weight)]
        v2 == [v1 EXCEPT ![vertex2] = Append(@, vertex1)]
        e2 == [e1 EXCEPT ![vertex2] = DictSet(@, vertex1, weight)]
    IN [vertices |-> v2, edges |-> e2]

\* the order of the tuples (distance, vertex) in the priority queue
TupleLess(a, b) ==
    \/ a[1] < b[1]
    \/ a[1] = b[1] /\ a[2][1] < b[2][1]
    \/ a[1] = b[1] /\ a[2][1] = b[2][1] /\ a[2][2] < b[2][2]

\* heapq.heappop(priority_queue): the smallest tuple
heappop(priority_queue) ==
    CHOOSE e \in priority_queue : \A o \in priority_queue \ {e} : TupleLess(e, o)

\* a relaxation that keeps the first distance found for a vertex
RECURSIVE Relax_FirstFound(_, _, _, _, _)
Relax_FirstFound(g, st, current_distance, current_vertex, neighbors) ==
    IF neighbors = <<>>
    THEN st
    ELSE LET neighbor == Head(neighbors)
             weight == g.edges[current_vertex][neighbor]
             distance == current_distance + weight
             st1 == IF st.distances[neighbor] = Infinity
                    THEN [distances |-> [st.distances EXCEPT ![neighbor] = distance],
                          previous |-> [st.previous EXCEPT ![neighbor] = current_vertex],
                          priority_queue |-> st.priority_queue \cup {<<distance, neighbor>>}]
                    ELSE st
         IN Relax_FirstFound(g, st1, current_distance, current_vertex, Tail(neighbors))

\* "for neighbor in self.vertices[current_vertex]": st holds distances,
\* previous and priority_queue
RECURSIVE Relax(_, _, _, _, _)
Relax(g, st, current_distance, current_vertex, neighbors) ==
    IF neighbors = <<>>
    THEN st
    ELSE LET neighbor == Head(neighbors)
             weight == g.edges[current_vertex][neighbor]
             distance == current_distance + weight
             st1 == IF distance < st.distances[neighbor]
                    THEN [distances |-> [st.distances EXCEPT ![neighbor] = distance],
                          previous |-> [st.previous EXCEPT ![neighbor] = current_vertex],
                          priority_queue |-> st.priority_queue \cup {<<distance, neighbor>>}]
                    ELSE st
         IN Relax(g, st1, current_distance, current_vertex, Tail(neighbors))

\* "while priority_queue"
RECURSIVE DijkstraLoop(_, _, _)
DijkstraLoop(g, end_vertex, st) ==
    IF st.priority_queue = {}
    THEN st
    ELSE LET top == heappop(st.priority_queue)
             current_distance == top[1]
             current_vertex == top[2]
             st1 == [st EXCEPT !.priority_queue = @ \ {top}]
         IN IF current_vertex = end_vertex
            THEN st1
            ELSE IF current_distance > st.distances[current_vertex]
            THEN DijkstraLoop(g, end_vertex, st1)
            ELSE DijkstraLoop(g, end_vertex,
                    Relax(g, st1, current_distance, current_vertex,
                          g.vertices[current_vertex]))

\* "while current is not None: path.append(current)", then path.reverse()
RECURSIVE PathTo(_, _)
PathTo(previous, current) ==
    IF current = None THEN <<>> ELSE Append(PathTo(previous, previous[current]), current)

\* a search that leaves the distance of the start vertex at infinity
dijkstra_StartUnset(g, start_vertex, end_vertex) ==
    IF start_vertex \notin DOMAIN g.vertices \/ end_vertex \notin DOMAIN g.vertices
    THEN [distance |-> Infinity, path |-> <<>>]
    ELSE LET st0 == [distances |-> [v \in DOMAIN g.vertices |-> Infinity],
                     previous |-> [v \in DOMAIN g.vertices |-> None],
                     priority_queue |-> {<<0, start_vertex>>}]
             st == DijkstraLoop(g, end_vertex, st0)
         IN [distance |-> st.distances[end_vertex],
             path |-> PathTo(st.previous, end_vertex)]

dijkstra(g, start_vertex, end_vertex) ==
    IF start_vertex \notin DOMAIN g.vertices \/ end_vertex \notin DOMAIN g.vertices
    THEN [distance |-> Infinity, path |-> <<>>]
    ELSE LET st0 == [distances |-> [v \in DOMAIN g.vertices |->
                                       IF v = start_vertex THEN 0 ELSE Infinity],
                     previous |-> [v \in DOMAIN g.vertices |-> None],
                     priority_queue |-> {<<0, start_vertex>>}]
             st == DijkstraLoop(g, end_vertex, st0)
         IN [distance |-> st.distances[end_vertex],
             path |-> PathTo(st.previous, end_vertex)]

\* RouteOptimizer, in units of half a grid step: lat_step = lon_step = 0.01
\* degree; buffer, five grid steps in the code, is BufferSteps grid steps
lat_step == 2

lon_step == 2

buffer == BufferSteps * lat_step

\* "calculate_distance(...) < lat_step * 2" compares kilometres with 0.02:
\* a point 20 m away. In these units only a point at distance 0 is that near
ProximityLimit == 1

\* add_edge(vertex1, vertex2) with weight None
add_edge_default(g, vertex1, vertex2) ==
    add_edge(g, vertex1, vertex2,
             calculate_distance(vertex1[1], vertex1[2], vertex2[1], vertex2[2]))

\* add_vertex for the vertices vs[k], vs[k+1], ... in turn
RECURSIVE AddVerticesFrom(_, _, _)
AddVerticesFrom(g, vs, k) ==
    IF k > Len(vs)
    THEN g
    ELSE CHOOSE r \in {AddVerticesFrom(g1, vs, k1) :
                          g1 \in {add_vertex(g, vs[k])}, k1 \in {k + 1}} : TRUE

AddVertices(g, vs) == AddVerticesFrom(g, vs, 1)

\* add_edge for the pairs es[k], es[k+1], ... in turn
RECURSIVE AddEdgesFrom(_, _, _)
AddEdgesFrom(g, es, k) ==
    IF k > Len(es)
    THEN g
    ELSE CHOOSE r \in {AddEdgesFrom(g1, es, k1) :
                          g1 \in {add_edge_default(g, es[k][1], es[k][2])}, k1 \in {k + 1}} : TRUE

AddEdges(g, es) == AddEdgesFrom(g, es, 1)

RECURSIVE Flatten(_)
Flatten(ss) == IF ss = <<>> THEN <<>> ELSE Head(ss) \o Flatten(Tail(ss))

\* [lo + i * step for i in range(int((hi - lo) / step) + 1)]
GridLine(lo, hi, grid_step) == [k \in 1..((hi - lo) \div grid_step + 1) |-> lo + (k - 1) * grid_step]

\* the pairs (lat, lon) of "for lat in latitudes: for lon in longitudes"
GridPoints(latitudes, longitudes) ==
    Flatten([i \in DOMAIN latitudes |->
                [j \in DOMAIN longitudes |-> <<latitudes[i], longitudes[j]>>]])

\* the right neighbour tested with an index one too far: the last edge of
\* every row is left out
create_grid_graph_ShortRow(min_lat, max_lat, min_lon, max_lon) ==
    LET latitudes == GridLine(min_lat, max_lat, lat_step)
        longitudes == GridLine(min_lon, max_lon, lon_step)
        EdgesAt(i, j) ==
            LET current_vertex == <<latitudes[i], longitudes[j]>>
            IN (IF j + 1 < Len(longitudes)
                THEN <<<<current_vertex, <<latitudes[i], longitudes[j + 1]>>>>>>
                ELSE <<>>)
               \o (IF i + 1 <= Len(latitudes)
                   THEN <<<<current_vertex, <<latitudes[i + 1], longitudes[j]>>>>>>
                   ELSE <<>>)
               \o (IF i + 1 <= Len(latitudes) /\ j + 1 <= Len(longitudes)
                   THEN <<<<current_vertex, <<latitudes[i + 1], longitudes[j + 1]>>>>>>
                   ELSE <<>>)
        edges == Flatten(Flatten([i \in DOMAIN latitudes |->
                                     [j \in DOMAIN longitudes |-> EdgesAt(i, j)]]))
    IN AddEdges(AddVertices(EmptyGraph, GridPoints(latitudes, longitudes)), edges)

\* RouteOptimizer.create_grid_graph with the grid steps lat_step and lon_step
create_grid_graph(min_lat, max_lat, min_lon, max_lon) ==
    LET latitudes == GridLine(min_lat, max_lat, lat_step)
        longitudes == GridLine(min_lon, max_lon, lon_step)
        EdgesAt(i, j) ==
            LET current_vertex == <<latitudes[i], longitudes[j]>>
            IN (IF j + 1 <= Len(longitudes)
                THEN <<<<current_vertex, <<latitudes[i], longitudes[j + 1]>>>>>>
                ELSE <<>>)
               \o (IF i + 1 <= Len(latitudes)
                   THEN <<<<current_vertex, <<latitudes[i + 1], longitudes[j]>>>>>>
                   ELSE <<>>)
               \o (IF i + 1 <= Len(latitudes) /\ j + 1 <= Len(longitudes)
                   THEN <<<<current_vertex, <<latitudes[i + 1], longitudes[j + 1]>>>>>>
                   ELSE <<>>)
        edges == Flatten(Flatten([i \in DOMAIN latitudes |->
                                     [j \in DOMAIN longitudes |-> EdgesAt(i, j)]]))
    IN AddEdges(AddVertices(EmptyGraph, GridPoints(latitudes, longitudes)), edges)

\* the graph find_shortest_path builds before it calls dijkstra
RouteGraph(start_vertex, end_vertex) ==
    LET min_lat == Min(start_vertex[1], end_vertex[1]) - buffer
        max_lat == Max(start_vertex[1], end_vertex[1]) + buffer
        min_lon == Min(start_vertex[2], end_vertex[2]) - buffer
        max_lon == Max(start_vertex[2], end_vertex[2]) + buffer
        g0 == create_grid_graph(min_lat, max_lat, min_lon, max_lon)
        g1 == add_vertex(add_vertex(g0, start_vertex), end_vertex)
        points == GridPoints(GridLine(min_lat, max_lat, lat_step),
                             GridLine(min_lon, max_lon, lon_step))
        Near(p, q) == calculate_distance(p[1], p[2], q[1], q[2]) < ProximityLimit
        links == Flatten([k \in DOMAIN points |->
                    (IF Near(start_vertex, points[k])
                     THEN <<<<start_vertex, points[k]>>>> ELSE <<>>)
                    \o (IF Near(end_vertex, points[k])
                        THEN <<<<end_vertex, points[k]>>>> ELSE <<>>)])
    IN AddEdges(g1, links)

find_shortest_path(start_vertex, end_vertex) ==
    dijkstra(RouteGraph(start_vertex, end_vertex), start_vertex, end_vertex)

\* ------------------------------------------------------------ share matcher
\* float arithmetic with inf: Infinity stands for float('inf')
FSum(a, b) == IF a = Infinity \/ b = Infinity THEN Infinity ELSE a + b

\* max_detour_factor is k halves (k = 3 is the default 1.5).
\* "x < y * max_detour_factor": inf * 0 is nan and no number is less than nan
LessTimes(x, y, k) ==
    /\ x # Infinity
    /\ IF y = Infinity THEN k > 0 ELSE 2 * x < y * k

\* the columns the SELECT of get_active_rides names in the rides table
ActiveRideColumns ==
    {"cab_id", "user_start_x", "user_start_y", "user_end_x", "user_end_y", "shared",
     "timestamp"}

\* DatabaseUtils.get_active_rides: the rides of the cabs whose status is Busy
\* or Shared, most recent first, so that the ride found for a cab is its most
\* recent one; a column the table lacks is an sqlite3.Error, which returns []
get_active_rides(r, cabtable) ==
    IF ~(ActiveRideColumns \subseteq TableColumns(r))
    THEN <<>>
    ELSE [c \in {x \in DOMAIN r.rows \cap DOMAIN cabtable :
                    cabtable[x].status \in {"Busy", "Shared"}} |-> r.rows[c]]

\* the points of the line of the map the matcher is called on
MatchPoints == {<<1, lon>> : lon \in 1..FinderSpan}

\* RouteOptimizer.find_shortest_path is a function of its arguments: the
\* distance it returns for every two points of the line
RouteDistances ==
    {<<a, b, find_shortest_path(a, b).distance>> : a \in MatchPoints, b \in MatchPoints}

RouteDistance(start_vertex, end_vertex) ==
    (CHOOSE t \in RouteDistances : t[1] = start_vertex /\ t[2] = end_vertex)[3]

\* the distances find_shared_cab computes for a Busy or Shared cab with the
\* ride current_ride
ShareCosts(cab, current_ride, user_start, user_end) ==
    LET cab_current_location == <<cab.latitude, cab.longitude>>
        current_passenger_end == current_ride.end.pt
        original == RouteDistance(cab_current_location, current_passenger_end)
        path1 == FSum(FSum(RouteDistance(cab_current_location, user_start),
                           calculate_distance(user_start[1], user_start[2],
                                              current_passenger_end[1],
                                              current_passenger_end[2])),
                      calculate_distance(current_passenger_end[1], current_passenger_end[2],
                                         user_end[1], user_end[2]))
        path2 == FSum(FSum(RouteDistance(cab_current_location, current_passenger_end),
                           calculate_distance(current_passenger_end[1],
                                              current_passenger_end[2],
                                              user_start[1], user_start[2])),
                      calculate_distance(user_start[1], user_start[2],
                                         user_end[1], user_end[2]))
    IN [original |-> original, path1 |-> path1, path2 |-> path2,
        combined |-> Min(path1, path2),
        direct |-> calculate_distance(user_start[1], user_start[2],
                                      user_end[1], user_end[2]),
        pickup |-> calculate_distance(cab_current_location[1], cab_current_location[2],
                                      user_start[1], user_start[2])]

\* the test on the combined route left out
DetourFits_NoTest(costs, k) == TRUE

\* "if combined_route_distance < original_cab_to_current_dropoff_dist * max_detour_factor"
DetourFits(costs, k) == LessTimes(costs.combined, costs.original, k)

\* "if new_user_trip_in_shared_cab < user_direct_distance * max_detour_factor",
\* where new_user_trip_in_shared_cab is the direct distance again
RiderFits(costs, k) == LessTimes(costs.direct, costs.direct, k)

\* the branch of an Available cab skipped
ShareStep_BusyOnly(st, cab_id, cab, active_rides, user_start, user_end, k) ==
    IF cab.status \in {"Busy", "Shared"} /\ cab_id \in DOMAIN active_rides
    THEN LET costs == ShareCosts(cab, active_rides[cab_id], user_start, user_end)
         IN IF DetourFits(costs, k) /\ RiderFits(costs, k)
                  /\ costs.pickup < st.min_detour_distance
            THEN [best_shared_cab |-> cab_id, min_detour_distance |-> costs.pickup]
            ELSE st
    ELSE st

\* the body of "for cab in cabs"; st holds best_shared_cab (0 is None) and
\* min_detour_distance
ShareStep(st, cab_id, cab, active_rides, user_start, user_end, k) ==
    IF cab.status = "Available"
    THEN LET pickup_distance == calculate_distance(user_start[1], user_start[2],
                                                   cab.latitude, cab.longitude)
             total_distance_for_user ==
                 pickup_distance + calculate_distance(user_start[1], user_start[2],
                                                      user_end[1], user_end[2])
         IN IF total_distance_for_user < st.min_detour_distance
            THEN [best_shared_cab |-> cab_id,
                  min_detour_distance |-> total_distance_for_user]
            ELSE st
    ELSE IF cab.status \in {"Busy", "Shared"} /\ cab_id \in DOMAIN active_rides
    THEN LET costs == ShareCosts(cab, active_rides[cab_id], user_start, user_end)
         IN IF DetourFits(costs, k) /\ RiderFits(costs, k)
                  /\ costs.pickup < st.min_detour_distance
            THEN [best_shared_cab |-> cab_id, min_detour_distance |-> costs.pickup]
            ELSE st
    ELSE st

\* "for cab in cabs", from the cab with id cab_id on
RECURSIVE ShareLoop(_, _, _, _, _, _, _)
ShareLoop(st, cab_id, cablist, active_rides, user_start, user_end, k) ==
    IF cab_id > Len(cablist)
    THEN st
    ELSE CHOOSE r \in {ShareLoop(st1, cab_id + 1, cablist, active_rides,
                                  user_start, user_end, k) :
                          st1 \in {ShareStep(st, cab_id, cablist[cab_id], active_rides,
                                             user_start, user_end, k)}} : TRUE

\* CabFinder.find_shared_cab: (cab, distance), or (None, inf)
find_shared_cab(cablist, r, user_start, user_end, k) ==
    LET st == ShareLoop([best_shared_cab |-> 0, min_detour_distance |-> Infinity], 1,
                        cablist, get_active_rides(r, cablist), user_start, user_end, k)
    IN IF st.best_shared_cab # 0
       THEN [cab |-> st.best_shared_cab, distance |-> st.min_detour_distance]
       ELSE [cab |-> 0, distance |-> Infinity]

\* -------------------------------------- specification of the nearest finder
\* The cabs table holds any rows on a line of the map; a call of
\* find_nearest_cab with the rows of the table, a query point and a count
\* leaves its arguments and its result in fx. One call is made on each table.
FinderLons == 1..FinderSpan

FinderRows ==
    {[latitude |-> 1, longitude |-> lon, status |-> st] :
        lon \in FinderLons, st \in {"Available", "Busy"}}

InitN ==
    /\ cabs \in [1..FinderCabs -> FinderRows]
    /\ rides = [schema |-> "current", rows |-> <<>>]
    /\ active_cab_targets = <<>>
    /\ clients = <<>>
    /\ conn = [ws \in Conns |-> "done"]
    /\ tick = TickAsleep
    /\ handler = HandlerIdle
    /\ fx = <<>>
    /\ order = [c \in 1..FinderCabs |-> "broken"]
    /\ trace = [c \in 1..FinderCabs |-> <<>>]
    /\ graph = EmptyGraph

NearestCall(user_x, user_y, num_cabs) ==
    [kind |-> "nearest", to |-> 0, cab |-> 0,
     msg |-> [user_x |-> user_x, user_y |-> user_y, num_cabs |-> num_cabs,
              result |-> find_nearest_cab(get_all_cabs, user_x, user_y, num_cabs)]]

FindNearest ==
    /\ fx = <<>>
    /\ \E user_y \in FinderLons, num_cabs \in 0..(FinderCabs + 1) :
          fx' = <<NearestCall(1, user_y, num_cabs)>>
    /\ UNCHANGED <<graph, cabs, rides, active_cab_targets, clients, conn, tick, handler,
                   order, trace>>

NextN == FindNearest

SpecN == InitN /\ [][NextN]_vars

\* ------------------------------------------- specification of the MinHeap
\* A MinHeap object is the list self.heap and the counter self.size. Calls of
\* insert and extract_min are made on one object in any order; fx holds, for
\* every call, the object before and after it and the value returned.
NewMinHeap == [heap |-> <<>>, size |-> 0]

\* MinHeap.insert on the object h
MinHeapInsert(h, cab, distance) ==
    [heap |-> insert(h.heap, cab, distance), size |-> h.size + 1]

\* MinHeap.extract_min on the object h: the value returned (None on an empty
\* heap) and the object left
MinHeapExtract(h) ==
    IF h.size = 0
    THEN [min_cab |-> None, h |-> h]
    ELSE LET r == extract_min(h.heap)
         IN [min_cab |-> r.min_cab, h |-> [heap |-> r.heap, size |-> h.size - 1]]

HeapNow == IF fx = <<>> THEN NewMinHeap ELSE fx[Len(fx)].msg.after

HeapCall(op, before, after, result) ==
    [kind |-> op, to |-> 0, cab |-> 0,
     msg |-> [before |-> before, after |-> after, result |-> result]]

InitH ==
    /\ graph = EmptyGraph
    /\ cabs = <<>>
    /\ rides = [schema |-> "current", rows |-> <<>>]
    /\ active_cab_targets = <<>>
    /\ clients = <<>>
    /\ conn = [ws \in Conns |-> "done"]
    /\ tick = TickAsleep
    /\ handler = HandlerIdle
    /\ fx = <<>>
    /\ order = <<>>
    /\ trace = <<>>

\* min_heap.insert(cab, distance); the cab is named by the number of the call
HeapInsert ==
    /\ Len(fx) < MaxCalls
    /\ \E distance \in 0..MaxKey :
          LET cab == Len(fx) + 1
              entry == [cab |-> cab, distance |-> distance]
          IN fx' = Append(fx, HeapCall("insert", HeapNow,
                                       MinHeapInsert(HeapNow, cab, distance), entry))
    /\ UNCHANGED <<graph, cabs, rides, active_cab_targets, clients, conn, tick, handler,
                   order, trace>>

\* min_heap.extract_min()
HeapExtract ==
    /\ Len(fx) < MaxCalls
    /\ LET r == MinHeapExtract(HeapNow)
       IN fx' = Append(fx, HeapCall("extract_min", HeapNow, r.h, r.min_cab))
    /\ UNCHANGED <<graph, cabs, rides, active_cab_targets, clients, conn, tick, handler,
                   order, trace>>

NextH == HeapInsert \/ HeapExtract

SpecH == InitH /\ [][NextH]_vars

\* ------------------------------------------ specification of the router
\* A Graph object is either the empty graph of Graph(), on which
\* find_shortest_path builds its grid for a start and an end point of the
\* map, or a graph of four vertices built by add_vertex and add_edge with any
\* weights 0..MaxWeight on any of the six pairs, on which dijkstra is called
\* for any two points, one of them possibly not a vertex. The arguments and
\* the result of the call are left in fx; one call is made on each graph.
GraphPoints == {<<1, 1>>, <<1, 2>>, <<2, 1>>, <<2, 2>>}

OffPoint == <<3, 3>>

GraphPairs ==
    << <<<<1, 1>>, <<1, 2>>>>, <<<<1, 1>>, <<2, 1>>>>, <<<<1, 1>>, <<2, 2>>>>,
       <<<<1, 2>>, <<2, 1>>>>, <<<<1, 2>>, <<2, 2>>>>, <<<<2, 1>>, <<2, 2>>>> >>

NoEdge == -1

RECURSIVE AddWeighted(_, _, _)
AddWeighted(g, w, k) ==
    IF k > Len(GraphPairs)
    THEN g
    ELSE AddWeighted(IF w[k] = NoEdge
                     THEN g
                     ELSE add_edge(g, GraphPairs[k][1], GraphPairs[k][2], w[k]),
                     w, k + 1)

BuiltGraph(w) ==
    AddWeighted(AddVertices(EmptyGraph, <<<<1, 1>>, <<1, 2>>, <<2, 1>>, <<2, 2>>>>), w, 1)

InitG ==
    /\ graph \in {EmptyGraph}
                   \cup {BuiltGraph(w) : w \in [DOMAIN GraphPairs -> {NoEdge} \cup 0..MaxWeight]}
    /\ cabs = <<>>
    /\ rides = [schema |-> "current", rows |-> <<>>]
    /\ active_cab_targets = <<>>
    /\ clients = <<>>
    /\ conn = [ws \in Conns |-> "done"]
    /\ tick = TickAsleep
    /\ handler = HandlerIdle
    /\ fx = <<>>
    /\ order = <<>>
    /\ trace = <<>>

PathCall(op, start_vertex, end_vertex, r) ==
    [kind |-> "path", to |-> 0, cab |-> 0,
     msg |-> [op |-> op, start |-> start_vertex, end |-> end_vertex,
              distance |-> r.distance, path |-> r.path]]

Dijkstra ==
    /\ fx = <<>>
    /\ graph # EmptyGraph
    /\ \E start_vertex \in GraphPoints \cup {OffPoint},
          end_vertex \in GraphPoints \cup {OffPoint} :
          fx' = <<PathCall("dijkstra", start_vertex, end_vertex,
                           dijkstra(graph, start_vertex, end_vertex))>>
    /\ UNCHANGED <<graph, cabs, rides, active_cab_targets, clients, conn, tick, handler,
                   order, trace>>

FindShortestPath ==
    /\ fx = <<>>
    /\ graph = EmptyGraph
    /\ \E start_vertex \in Lats \X Lons, end_vertex \in Lats \X Lons :
          /\ graph' = RouteGraph(start_vertex, end_vertex)
          /\ fx' = <<PathCall("find_shortest_path", start_vertex, end_vertex,
                              find_shortest_path(start_vertex, end_vertex))>>
    /\ UNCHANGED <<cabs, rides, active_cab_targets, clients, conn, tick, handler,
                   order, trace>>

NextG == Dijkstra \/ FindShortestPath

SpecG == InitG /\ [][NextG]_vars

\* --------------------------------------- specification of the grid graph
\* A call of create_grid_graph for a box whose sides are 0..MaxExtent units
\* long (the steps are two units) leaves the graph in graph and its
\* arguments in fx.
GridOrigins == {0, 1}

InitL ==
    /\ graph = EmptyGraph
    /\ cabs = <<>>
    /\ rides = [schema |-> "current", rows |-> <<>>]
    /\ active_cab_targets = <<>>
    /\ clients = <<>>
    /\ conn = [ws \in Conns |-> "done"]
    /\ tick = TickAsleep
    /\ handler = HandlerIdle
    /\ fx = <<>>
    /\ order = <<>>
    /\ trace = <<>>

GridCall(min_lat, max_lat, min_lon, max_lon) ==
    [kind |-> "grid", to |-> 0, cab |-> 0,
     msg |-> [min_lat |-> min_lat, max_lat |-> max_lat,
              min_lon |-> min_lon, max_lon |-> max_lon]]

CreateGridGraph ==
    /\ fx = <<>>
    /\ \E min_lat \in GridOrigins, min_lon \in GridOrigins,
          lat_extent \in 0..MaxExtent, lon_extent \in 0..MaxExtent :
          /\ graph' = create_grid_graph(min_lat, min_lat + lat_extent,
                                        min_lon, min_lon + lon_extent)
          /\ fx' = <<GridCall(min_lat, min_lat + lat_extent, min_lon, min_lon + lon_extent)>>
    /\ UNCHANGED <<cabs, rides, active_cab_targets, clients, conn, tick, handler,
                   order, trace>>

NextL == CreateGridGraph

SpecL == InitL /\ [][NextL]_vars

\* ------------------------------------- specification of the share matcher
\* The cabs table holds two cabs on a line of the map, each Available, Busy or
\* Shared; the rides table is the one initialize_db creates, which
\* get_active_rides cannot read, or one with the columns it names and a ride
\* for any of the cabs. A call of find_shared_cab with the rows of the cabs
\* table, a request and a factor leaves its arguments and its result in fx.
MatchFleet == {1, 2}

MatchRows ==
    {[latitude |-> 1, longitude |-> lon, status |-> st] :
        lon \in FinderLons, st \in {"Available", "Busy", "Shared"}}

MatchRides(fleet) ==
    UNION {[S -> {[start |-> <<1, 1>>, end |-> [kind |-> "point", pt |-> <<1, lon>>]] :
                     lon \in FinderLons}] : S \in SUBSET fleet}

InitM ==
    /\ cabs \in [MatchFleet -> MatchRows]
    /\ rides \in {[schema |-> "current", rows |-> <<>>]}
                   \cup {[schema |-> "legacy", rows |-> rw] : rw \in MatchRides(MatchFleet)}
    /\ active_cab_targets = <<>>
    /\ clients = <<>>
    /\ conn = [ws \in Conns |-> "done"]
    /\ tick = TickAsleep
    /\ handler = HandlerIdle
    /\ fx = <<>>
    /\ order = [c \in MatchFleet |-> "broken"]
    /\ trace = [c \in MatchFleet |-> <<>>]
    /\ graph = EmptyGraph

SharedCall(user_start, user_end, k) ==
    [kind |-> "shared", to |-> 0, cab |-> 0,
     msg |-> [user_start |-> user_start, user_end |-> user_end, k |-> k,
              result |-> find_shared_cab(get_all_cabs, rides, user_start, user_end, k)]]

FindShared ==
    /\ fx = <<>>
    /\ \E start_lon \in FinderLons, end_lon \in FinderLons, k \in 0..MaxFactor :
          fx' = <<SharedCall(<<1, start_lon>>, <<1, end_lon>>, k)>>
    /\ UNCHANGED <<graph, cabs, rides, active_cab_targets, clients, conn, tick, handler,
                   order, trace>>

NextM == FindShared

SpecM == InitM /\ [][NextM]_vars

\* ------------------------------------------------------------ fare division
\* Python floats are binary floating-point numbers: every operation returns
\* the representable number nearest to the exact result. A float is modelled
\* as a fraction <<n, d>>, d > 0, and the 53-bit significand of a float by a
\* significand of MantissaBits bits; exponents are not bounded, so overflow and
\* underflow are not modelled.
RECURSIVE Pow2(_)
Pow2(k) == IF k = 0 THEN 1 ELSE 2 * Pow2(k - 1)

\* n / d scaled by a power of two into [2^(MantissaBits-1), 2^MantissaBits)
RECURSIVE Normalize(_, _, _)
Normalize(n, d, shift) ==
    IF n >= d * Pow2(MantissaBits)
    THEN Normalize(n, 2 * d, shift + 1)
    ELSE IF n < d * Pow2(MantissaBits - 1)
    THEN Normalize(2 * n, d, shift - 1)
    ELSE [n |-> n, d |-> d, shift |-> shift]

\* the integer nearest to n / d, the even one of two equally near
Nearest(n, d) ==
    LET q == n \div d
        r == n % d
    IN IF 2 * r > d \/ (2 * r = d /\ q % 2 = 1) THEN q + 1 ELSE q

\* the fraction n / d, d a power of two, in lowest terms
RECURSIVE Lowest(_, _)
Lowest(n, d) == IF d > 1 /\ n % 2 = 0 THEN Lowest(n \div 2, d \div 2) ELSE <<n, d>>

\* the float nearest to n / d, for d > 0
RoundFloat(n, d) ==
    IF n = 0
    THEN <<0, 1>>
    ELSE LET z == Normalize(Abs(n), d, 0)
             mant == Nearest(z.n, z.d)
         IN IF z.shift >= 0
            THEN <<Sign(n) * mant * Pow2(z.shift), 1>>
            ELSE Lowest(Sign(n) * mant, Pow2(-z.shift))

\* a number of a request, taken as the float nearest to it
Float(i) == RoundFloat(i, 1)

FloatAdd(a, b) == RoundFloat(a[1] * b[2] + b[1] * a[2], a[2] * b[2])

FloatMul(a, b) == RoundFloat(a[1] * b[1], a[2] * b[2])

\* a / b for b # 0
FloatDiv(a, b) == RoundFloat(Sign(b[1]) * a[1] * b[2], a[2] * Abs(b[1]))

\* the shares computed from the primary distance alone
calculate_fare_division_OfPrimary(primary_ride_distance, secondary_ride_distance, total_fare) ==
    LET total_shared_distance == FloatAdd(Float(primary_ride_distance),
                                          Float(secondary_ride_distance))
    IN IF total_shared_distance[1] = 0
       THEN [primary_fare |-> <<0, 1>>, secondary_fare |-> <<0, 1>>,
             divisions |-> 0, raised |-> FALSE]
       ELSE [primary_fare |-> FloatMul(FloatDiv(Float(primary_ride_distance),
                                                total_shared_distance),
                                       Float(total_fare)),
             secondary_fare |-> FloatMul(FloatDiv(Float(primary_ride_distance),
                                                  total_shared_distance),
                                         Float(total_fare)),
             divisions |-> 2, raised |-> FALSE]

\* the test for a total of 0 left out: the division raises ZeroDivisionError
calculate_fare_division_Unguarded(primary_ride_distance, secondary_ride_distance, total_fare) ==
    LET total_shared_distance == FloatAdd(Float(primary_ride_distance),
                                          Float(secondary_ride_distance))
    IN IF total_shared_distance[1] = 0
       THEN [primary_fare |-> <<0, 1>>, secondary_fare |-> <<0, 1>>,
             divisions |-> 1, raised |-> TRUE]
       ELSE [primary_fare |-> FloatMul(FloatDiv(Float(primary_ride_distance),
                                                total_shared_distance),
                                       Float(total_fare)),
             secondary_fare |-> FloatMul(FloatDiv(Float(secondary_ride_distance),
                                                  total_shared_distance),
                                         Float(total_fare)),
             divisions |-> 2, raised |-> FALSE]

\* RideSharing.calculate_fare_division: the two fares, the number of divisions
\* performed and whether an exception was raised
calculate_fare_division(primary_ride_distance, secondary_ride_distance, total_fare) ==
    LET total_shared_distance == FloatAdd(Float(primary_ride_distance),
                                          Float(secondary_ride_distance))
    IN IF total_shared_distance[1] = 0
       THEN [primary_fare |-> <<0, 1>>, secondary_fare |-> <<0, 1>>,
             divisions |-> 0, raised |-> FALSE]
       ELSE [primary_fare |-> FloatMul(FloatDiv(Float(primary_ride_distance),
                                                total_shared_distance),
                                       Float(total_fare)),
             secondary_fare |-> FloatMul(FloatDiv(Float(secondary_ride_distance),
                                                  total_shared_distance),
                                         Float(total_fare)),
             divisions |-> 2, raised |-> FALSE]

\* ------------------------------------- specification of the fare division
\* A call of calculate_fare_division with any two leg distances, negative ones
\* included, and any total fare leaves its arguments and its result in fx.
LegDistances == (-1)..MaxLeg

Fares == 0..MaxFare \cup {150}

InitD ==
    /\ cabs = <<>>
    /\ rides = [schema |-> "current", rows |-> <<>>]
    /\ active_cab_targets = <<>>
    /\ clients = <<>>
    /\ conn = [ws \in Conns |-> "done"]
    /\ tick = TickAsleep
    /\ handler = HandlerIdle
    /\ fx = <<>>
    /\ order = <<>>
    /\ trace = <<>>
    /\ graph = EmptyGraph

FareCall(primary_ride_distance, secondary_ride_distance, total_fare) ==
    [kind |-> "fare", to |-> 0, cab |-> 0,
     msg |-> [primary_ride_distance |-> primary_ride_distance,
              secondary_ride_distance |-> secondary_ride_distance,
              total_fare |-> total_fare,
              result |-> calculate_fare_division(primary_ride_distance,
                                                 secondary_ride_distance, total_fare)]]

FareDivision ==
    /\ fx = <<>>
    /\ \E primary_ride_distance \in LegDistances, secondary_ride_distance \in LegDistances,
          total_fare \in Fares :
          fx' = <<FareCall(primary_ride_distance, secondary_ride_distance, total_fare)>>
    /\ UNCHANGED <<graph, cabs, rides, active_cab_targets, clients, conn, tick, handler,
                   order, trace>>

NextD == FareDivision

SpecD == InitD /\ [][NextD]_vars

\* ------------------------------------------------------- route overlap
\* a >= b for two floats
FloatGE(a, b) == a[1] * b[2] >= b[1] * a[2]

\* the ratio taken to the length of the first path
calculate_route_overlap_OfFirst(path1, path2) ==
    LET path1_set == Range(path1)
        path2_set == Range(path2)
        intersection == path1_set \cap path2_set
    IN IF path1 = <<>> \/ path2 = <<>>
       THEN <<0, 1>>
       ELSE FloatDiv(Float(Cardinality(intersection)), Float(Len(path1)))

\* RouteOptimizer.calculate_route_overlap
calculate_route_overlap(path1, path2) ==
    LET path1_set == Range(path1)
        path2_set == Range(path2)
        intersection == path1_set \cap path2_set
    IN IF path1 = <<>> \/ path2 = <<>>
       THEN <<0, 1>>
       ELSE FloatDiv(Float(Cardinality(intersection)),
                     Float(Min(Len(path1), Len(path2))))

\* RouteOptimizer.is_route_shareable
is_route_shareable(path1, path2, threshold) ==
    LET overlap == calculate_route_overlap(path1, path2)
    IN FloatGE(overlap, threshold)

\* ------------------------------------- specification of the route overlap
\* A call of is_route_shareable and the two calls of calculate_route_overlap
\* with the arguments in either order, for any two paths of at most MaxPath
\* waypoints (a waypoint may occur more than once in a path) and a threshold
\* of 0, 0.5, 1 or 1.5, leave their arguments and results in fx.
Waypoints == {<<1, 1>>, <<1, 2>>, <<2, 2>>}

RECURSIVE PathsOfLength(_)
PathsOfLength(n) ==
    IF n = 0
    THEN {<<>>}
    ELSE {Append(p, w) : p \in PathsOfLength(n - 1), w \in Waypoints}

Paths == UNION {PathsOfLength(n) : n \in 0..MaxPath}

Thresholds == {Lowest(k, 2) : k \in 0..3}

InitO ==
    /\ cabs = <<>>
    /\ rides = [schema |-> "current", rows |-> <<>>]
    /\ active_cab_targets = <<>>
    /\ clients = <<>>
    /\ conn = [ws \in Conns |-> "done"]
    /\ tick = TickAsleep
    /\ handler = HandlerIdle
    /\ fx = <<>>
    /\ order = <<>>
    /\ trace = <<>>
    /\ graph = EmptyGraph

OverlapCall(path1, path2, threshold) ==
    [kind |-> "overlap", to |-> 0, cab |-> 0,
     msg |-> [path1 |-> path1, path2 |-> path2, threshold |-> threshold,
              overlap |-> calculate_route_overlap(path1, path2),
              swapped |-> calculate_route_overlap(path2, path1),
              shareable |-> is_route_shareable(path1, path2, threshold)]]

RouteOverlap ==
    /\ fx = <<>>
    /\ \E path1 \in Paths, path2 \in Paths, threshold \in Thresholds :
          fx' = <<OverlapCall(path1, path2, threshold)>>
    /\ UNCHANGED <<graph, cabs, rides, active_cab_targets, clients, conn, tick, handler,
                   order, trace>>

NextO == RouteOverlap

SpecO == InitO /\ [][NextO]_vars

\* ------------------------------------------- specification of the approach
\* The states book_cab leaves for cab 1: status Busy, the cab anywhere on the
\* map, a to_pickup target at a point of the map or at the latitude 1e200.
\* No command follows: only the tick runs, with subscribers coming and going,
\* and every UPDATE succeeds.
InitP ==
    /\ \E lat \in Lats, lon \in Lons :
          cabs = [c \in {1} |-> [latitude |-> lat, longitude |-> lon, status |-> "Busy"]]
    /\ rides = [schema |-> "legacy",
                rows |-> [c \in {1} |-> [start |-> <<1, 1>>,
                                         end |-> [kind |-> "point", pt |-> <<1, 4>>]]]]
    /\ \E start \in PickupPoints \cup {FarPickup} :
          active_cab_targets = [c \in {1} |-> BookTarget(start)]
    /\ clients = <<>>
    /\ conn = [ws \in Conns |-> IF ws = 1 THEN "new" ELSE "done"]
    /\ tick = TickAsleep
    /\ handler = HandlerIdle
    /\ fx = <<>>
    /\ order = [c \in {1} |-> "broken"]
    /\ trace = [c \in {1} |-> <<>>]
    /\ graph = EmptyGraph

NextP ==
    \/ TickWake
    \/ TickSend
    \/ Subscribe
    \/ Unsubscribe
    \/ Network

SpecP == InitP /\ [][NextP]_vars /\ WF_vars(TickWake) /\ WF_vars(TickSend)

\* ------------------------------------------------------------ tick failures
\* C11: a failure in the step of one cab does not end the tick for the others:
\* when a tick is over, an event was produced for every cab of its snapshot
\* whose own step did not raise
C11_FailureIsolated ==
    (tick.pc = "sleep" /\ tick.n # 0) => (tick.seen \ tick.raised) \subseteq tick.emitted


\* C12: the tick loop never stops: after the end of any tick, also of one in
\* which the fleet could not be read, the step of a cab raised or a send
\* raised, the next tick runs and ends
C12_NextTickRuns ==
    \A k \in 1..TickPeriod :
        (tick.pc = "sleep" /\ tick.n = k) ~> (tick.pc = "sleep" /\ tick.n # k)

\* a tick that followed a tick in which the step of a cab raised is over
C12_Witness == tick.pc = "sleep" /\ tick.after_error


\* C13: a tick that ends without an error (the fleet was read and no step of
\* a cab raised) has produced at least one event for every cab of the fleet,
\* whether the cab moved, idled or was at its target
C13_EveryCabEmits ==
    [][(tick' # tick /\ tick'.pc = "sleep" /\ tick'.n # 0
            /\ ~ tick'.unread /\ tick'.raised = {})
       => DOMAIN cabs \subseteq tick'.emitted]_vars

\* the end of a tick without error in which cab 1, waiting at its
\* destination, got an arrival event and cab 2, idle and not Available, an
\* event in the batch
C13_Witness ==
    /\ tick.pc = "sleep" /\ ~ tick.unread /\ tick.raised = {}
    /\ tick.emitted = Fleet
    /\ cabs[1].status = "Arrived" /\ 1 \in DOMAIN active_cab_targets
    /\ \E i \in DOMAIN tick.updates :
          /\ tick.updates[i].cab_id = 2
          /\ tick.updates[i].tick = tick.n
          /\ tick.updates[i].status = "Shared"


\* C14: the events of a cab reach a subscriber in tick order: every event a
\* tick produced, the arrival events it broadcasts at once and the movement
\* events it sends in the batch at its end, is delivered while that tick is
\* the running one, so never after an event of a later tick
C14_DeliveredInTickOrder ==
    [][\A e \in Range(fx') :
          (e.kind = "sent" /\ e.msg.tick # 0) => e.msg.tick = tick.n /\ tick'.n = tick.n]_vars

\* a movement event of cab 1 on its trip, produced ticks after the arrival
\* event of its pickup, is delivered to a connected subscriber
C14_Witness ==
    \E e \in Range(fx) :
        /\ e.kind = "sent" /\ e.msg.tick = tick.n
        /\ e.msg.cab_id = 1 /\ e.msg.status = "OnTrip"
        /\ conn[e.to] = "open"


\* C15: a cab with a to_pickup target that is ticked again and again, with
\* every write succeeding and no command issued, reaches its pickup: the
\* arrival is detected after finitely many ticks, wherever the cab and the
\* target are
C15_PickupReached == <>(Mark("pickup_arrival", 1) \in Range(fx))


\* ------------------------------------------------------------ nearest finder
\* the Available cabs of the table
AvailableCabs == {c \in DOMAIN cabs : cabs[c].status = "Available"}

\* C16: find_nearest_cab returns at most k results, every returned cab is
\* Available, the results are in non-decreasing order of distance, and the
\* result is empty when no cab is Available
C16_NearestSorted ==
    \A e \in Range(fx) :
        e.kind = "nearest" =>
            LET res == e.msg.result
            IN /\ Len(res) <= e.msg.num_cabs
               /\ \A i \in DOMAIN res : res[i].cab.status = "Available"
               /\ \A i, j \in DOMAIN res : i < j => res[i].distance <= res[j].distance
               /\ AvailableCabs = {} => res = <<>>

\* a call that returned three cabs at three different distances, with more
\* cabs Available than asked for
C16_Witness ==
    \E e \in Range(fx) :
        /\ e.kind = "nearest" /\ Len(e.msg.result) = 3
        /\ e.msg.result[1].distance < e.msg.result[2].distance
        /\ e.msg.result[2].distance < e.msg.result[3].distance
        /\ Cardinality(AvailableCabs) = 4


\* C17: find_nearest_cab returns exactly min(k, number of Available cabs)
\* entries, of distinct cabs, each with the distance of that cab to the query
\* point, and no Available cab it left out is strictly nearer than a cab it
\* returned
C17_NearestComplete ==
    \A e \in Range(fx) :
        e.kind = "nearest" =>
            LET res == e.msg.result
                dist(c) == calculate_distance(e.msg.user_x, e.msg.user_y,
                                              cabs[c].latitude, cabs[c].longitude)
                returned == {res[i].cab.cab_id : i \in DOMAIN res}
            IN /\ Len(res) = Min(e.msg.num_cabs, Cardinality(AvailableCabs))
               /\ Cardinality(returned) = Len(res)
               /\ returned \subseteq AvailableCabs
               /\ \A i \in DOMAIN res : res[i].distance = dist(res[i].cab.cab_id)
               /\ \A c \in AvailableCabs \ returned :
                     \A i \in DOMAIN res : ~ (dist(c) < res[i].distance)

\* a call for two cabs with three Available: the one left out is farther
\* than both returned
C17_Witness ==
    \E e \in Range(fx) :
        /\ e.kind = "nearest" /\ e.msg.num_cabs = 2 /\ Len(e.msg.result) = 2
        /\ Cardinality(AvailableCabs) = 3
        /\ \E c \in AvailableCabs :
              /\ \A i \in DOMAIN e.msg.result : e.msg.result[i].cab.cab_id # c
              /\ calculate_distance(e.msg.user_x, e.msg.user_y,
                                    cabs[c].latitude, cabs[c].longitude)
                    > e.msg.result[2].distance


\* ------------------------------------------------------------------- router
\* the calls of dijkstra and find_shortest_path that fx reports
PathCalls == {e \in Range(fx) : e.kind = "path"}

\* the pairs (vertex, weight) of the cheapest walks of at most k more edges
\* that extend the walks of reached
RECURSIVE Cheapest(_, _, _)
Cheapest(g, reached, k) ==
    IF k = 0
    THEN reached
    ELSE LET more == reached \cup
                        UNION {{<<n, p[2] + g.edges[p[1]][n]>> : n \in DOMAIN g.edges[p[1]]} :
                                  p \in reached}
             best == {p \in more : \A q \in more : q[1] = p[1] => p[2] <= q[2]}
         IN CHOOSE r \in {Cheapest(g, b, k1) : b \in {best}, k1 \in {k - 1}} : TRUE

\* the minimum total weight over all paths from start_vertex to end_vertex,
\* Infinity when there is none
MinWeight(g, start_vertex, end_vertex) ==
    LET found == {p \in Cheapest(g, {<<start_vertex, 0>>}, Cardinality(DOMAIN g.vertices)) :
                     p[1] = end_vertex}
    IN IF found = {} THEN Infinity ELSE (CHOOSE p \in found : TRUE)[2]

\* the sum of the weights of the edges between consecutive vertices of path
RECURSIVE PathWeight(_, _)
PathWeight(g, path) ==
    IF Len(path) <= 1
    THEN 0
    ELSE g.edges[path[1]][path[2]] + PathWeight(g, Tail(path))

\* C18: when end is reachable from start, dijkstra returns the minimum total
\* weight over all paths from start to end, and a path that begins at start,
\* ends at end, uses only edges of the graph and whose weights sum to the
\* distance returned
C18_ShortestPath ==
    \A e \in PathCalls :
        (/\ e.msg.start \in DOMAIN graph.vertices
         /\ e.msg.end \in DOMAIN graph.vertices
         /\ MinWeight(graph, e.msg.start, e.msg.end) < Infinity)
        => /\ e.msg.distance = MinWeight(graph, e.msg.start, e.msg.end)
           /\ e.msg.path # <<>>
           /\ e.msg.path[1] = e.msg.start
           /\ e.msg.path[Len(e.msg.path)] = e.msg.end
           /\ \A i \in 1..(Len(e.msg.path) - 1) :
                 e.msg.path[i + 1] \in DOMAIN graph.edges[e.msg.path[i]]
           /\ PathWeight(graph, e.msg.path) = e.msg.distance

\* a call of dijkstra whose path goes through a third vertex because the edge
\* from start to end weighs more
C18_Witness ==
    \E e \in PathCalls :
        /\ e.msg.op = "dijkstra" /\ Len(e.msg.path) = 3
        /\ e.msg.end \in DOMAIN graph.edges[e.msg.start]
        /\ graph.edges[e.msg.start][e.msg.end] > e.msg.distance


\* C19: find_shortest_path(A, A), and dijkstra on a vertex A of its graph,
\* return distance 0 and the path of the single vertex A
C19_SamePoint ==
    \A e \in PathCalls :
        (/\ e.msg.start = e.msg.end
         /\ e.msg.op = "find_shortest_path" \/ e.msg.start \in DOMAIN graph.vertices)
        => e.msg.distance = 0 /\ e.msg.path = <<e.msg.start>>

\* find_shortest_path from a point to itself, on its grid of nine points
C19_Witness ==
    \E e \in PathCalls :
        /\ e.msg.op = "find_shortest_path" /\ e.msg.start = e.msg.end
        /\ Cardinality(DOMAIN graph.vertices) = 9
        /\ e.msg.path = <<e.msg.start>>


\* C20: a shortest-path query whose start or end is not a vertex of the graph
\* returns (infinity, []), and an infinite distance always comes with the
\* empty path
C20_NoRouteEmptyPath ==
    \A e \in PathCalls :
        /\ (e.msg.start \notin DOMAIN graph.vertices \/ e.msg.end \notin DOMAIN graph.vertices)
              => e.msg.distance = Infinity /\ e.msg.path = <<>>
        /\ e.msg.distance = Infinity => e.msg.path = <<>>


\* ------------------------------------------------------------ share matcher
\* the calls of find_shared_cab that fx reports
MatchCalls == {e \in Range(fx) : e.kind = "shared"}

\* a call returned a cab that is Busy or Shared
ReturnsBusy(e) ==
    /\ e.msg.result.cab # 0
    /\ cabs[e.msg.result.cab].status \in {"Busy", "Shared"}

\* straight-line distance between two points
Straight(p, q) == calculate_distance(p[1], p[2], q[1], q[2])

\* the drop-off point of the trip in progress of cab c
CurrentDropoff(c) == rides.rows[c].end.pt

\* the solo cost of the passenger of cab c: the route distance from the cab to
\* the drop-off point of the trip in progress
SoloCost(c) == RouteDistance(<<cabs[c].latitude, cabs[c].longitude>>, CurrentDropoff(c))

\* cab -> new pickup -> current drop-off -> new drop-off
PickupFirstCost(c, e) ==
    FSum(RouteDistance(<<cabs[c].latitude, cabs[c].longitude>>, e.msg.user_start),
         Straight(e.msg.user_start, CurrentDropoff(c))
            + Straight(CurrentDropoff(c), e.msg.user_end))

\* cab -> current drop-off -> new pickup -> new drop-off
DropoffFirstCost(c, e) ==
    FSum(SoloCost(c),
         Straight(CurrentDropoff(c), e.msg.user_start)
            + Straight(e.msg.user_start, e.msg.user_end))

\* "x > y * max_detour_factor" for the factor of k halves
ExceedsTimes(x, y, k) ==
    IF y = Infinity THEN FALSE ELSE x = Infinity \/ 2 * x > y * k

\* C21: find_shared_cab never returns a Busy or Shared cab whose combined
\* route cost, the cheaper of the two insertion orders, exceeds
\* max_detour_factor times the solo cost of the passenger it carries
C21_DetourBounded ==
    \A e \in MatchCalls :
        ReturnsBusy(e) =>
            LET c == e.msg.result.cab
            IN /\ c \in DOMAIN rides.rows
               /\ ~ExceedsTimes(Min(PickupFirstCost(c, e), DropoffFirstCost(c, e)),
                                SoloCost(c), e.msg.k)

\* a Busy or Shared cab returned although a second cab carrying a passenger
\* was nearer to the pickup: that one's combined cost exceeds the factor times
\* its solo cost
C21_Witness ==
    \E e \in MatchCalls :
        /\ ReturnsBusy(e)
        /\ SoloCost(e.msg.result.cab) \notin {0, Infinity}
        /\ \E c \in DOMAIN rides.rows \ {e.msg.result.cab} :
              /\ cabs[c].status \in {"Busy", "Shared"}
              /\ ExceedsTimes(Min(PickupFirstCost(c, e), DropoffFirstCost(c, e)),
                              SoloCost(c), e.msg.k)
              /\ Straight(<<cabs[c].latitude, cabs[c].longitude>>, e.msg.user_start)
                    < e.msg.result.distance


\* C22: find_shared_cab returns a Busy or Shared cab only if the distance the
\* new rider travels from pickup to drop-off along the chosen insertion order
\* is at most max_detour_factor times the rider's direct distance
C22_RiderDetourBounded ==
    \A e \in MatchCalls :
        ReturnsBusy(e) =>
            LET c == e.msg.result.cab
                direct == Straight(e.msg.user_start, e.msg.user_end)
                rider == IF PickupFirstCost(c, e) < DropoffFirstCost(c, e)
                         THEN Straight(e.msg.user_start, CurrentDropoff(c))
                                 + Straight(CurrentDropoff(c), e.msg.user_end)
                         ELSE direct
            IN ~ExceedsTimes(rider, direct, e.msg.k)


\* the cabs find_shared_cab accepts as candidates: the Available ones and the
\* Busy or Shared ones whose ride it read and that pass its two tests
AcceptedCabs(e) ==
    {c \in DOMAIN cabs :
        \/ cabs[c].status = "Available"
        \/ /\ cabs[c].status \in {"Busy", "Shared"}
           /\ c \in DOMAIN get_active_rides(rides, get_all_cabs)
           /\ LET costs == ShareCosts(cabs[c], rides.rows[c], e.msg.user_start,
                                      e.msg.user_end)
              IN DetourFits(costs, e.msg.k) /\ RiderFits(costs, e.msg.k)}

\* the pickup leg of cab c: the distance from the cab to the start of the rider
PickupLeg(c, e) == Straight(<<cabs[c].latitude, cabs[c].longitude>>, e.msg.user_start)

\* C23: among the accepted candidates find_shared_cab returns one with the
\* smallest pickup leg, and the value returned with it is its pickup distance
C23_SmallestPickupLeg ==
    \A e \in MatchCalls :
        AcceptedCabs(e) # {} =>
            /\ e.msg.result.cab \in AcceptedCabs(e)
            /\ \A c \in AcceptedCabs(e) : PickupLeg(e.msg.result.cab, e) <= PickupLeg(c, e)
            /\ e.msg.result.distance = PickupLeg(e.msg.result.cab, e)


FareCalls == {e \in Range(fx) : e.kind = "fare"}

\* the legs of a call are not negative and their sum is positive
ProperLegs(e) ==
    /\ e.msg.primary_ride_distance >= 0
    /\ e.msg.secondary_ride_distance >= 0
    /\ e.msg.primary_ride_distance + e.msg.secondary_ride_distance > 0

\* C25 as stated: the fares are in the ratio of the leg distances and add up
\* to the total fare, with the products and the sum computed as floats
C25_ExactShares ==
    \A e \in FareCalls :
        ProperLegs(e) =>
            LET a == e.msg.result.primary_fare
                b == e.msg.result.secondary_fare
            IN /\ FloatMul(a, Float(e.msg.secondary_ride_distance))
                     = FloatMul(b, Float(e.msg.primary_ride_distance))
               /\ FloatAdd(a, b) = Float(e.msg.total_fare)

\* the fare x is the share of leg in total_fare but for the rounding of the
\* three operations that produce it: within 4 / 2^MantissaBits of the share
NearShare(x, leg, e) ==
    LET total == e.msg.primary_ride_distance + e.msg.secondary_ride_distance
    IN Abs(x[1] * total - leg * e.msg.total_fare * x[2]) * Pow2(MantissaBits)
          <= 4 * leg * e.msg.total_fare * x[2]

\* C25 amended: each fare is the float nearest to the product of the total
\* fare and the float nearest to the leg's part of the total distance, so it
\* is the proportional share but for rounding, and the legs 10 and 5 with the
\* fare 150 give exactly 100 and 50
C25_SharesUpToRounding ==
    \A e \in FareCalls :
        ProperLegs(e) =>
            /\ NearShare(e.msg.result.primary_fare, e.msg.primary_ride_distance, e)
            /\ NearShare(e.msg.result.secondary_fare, e.msg.secondary_ride_distance, e)
            /\ (/\ e.msg.primary_ride_distance = 10
                /\ e.msg.secondary_ride_distance = 5
                /\ e.msg.total_fare = 150)
               => /\ e.msg.result.primary_fare = <<100, 1>>
                  /\ e.msg.result.secondary_fare = <<50, 1>>

\* the legs 1 and 2 with the fare 7: two fares whose sum is not 7
C25_Witness ==
    \E e \in FareCalls :
        /\ e.msg.primary_ride_distance = 1 /\ e.msg.secondary_ride_distance = 2
        /\ e.msg.total_fare = 7
        /\ e.msg.result.divisions = 2
        /\ FloatAdd(e.msg.result.primary_fare, e.msg.result.secondary_fare) # Float(7)


\* C26: when the total distance is 0, calculate_fare_division returns (0, 0)
\* for any total fare and performs no division
C26_ZeroTotal ==
    \A e \in FareCalls :
        e.msg.primary_ride_distance + e.msg.secondary_ride_distance = 0 =>
            /\ e.msg.result.primary_fare = <<0, 1>>
            /\ e.msg.result.secondary_fare = <<0, 1>>
            /\ e.msg.result.divisions = 0
            /\ ~e.msg.result.raised

\* a call with the legs 1 and -1 and a fare that is not 0
C26_Witness ==
    \E e \in FareCalls :
        /\ e.msg.primary_ride_distance = 1 /\ e.msg.secondary_ride_distance = -1
        /\ e.msg.total_fare = 150
        /\ e.msg.result.primary_fare = <<0, 1>>

\* ------------------------------------------ commands for an unknown vehicle
\* a step of book_cab, complete_ride or reset_cab_status for cab_id that is
\* answered with the status resp
UnknownCommand(cab_id, resp) ==
    \/ book_cab(cab_id, <<1, 2>>, <<1, MaxLon>>, FALSE, FALSE, resp)
    \/ complete_ride(cab_id, resp)
    \/ reset_cab_status(cab_id, resp)

\* C27: a dispatch command that names an unknown vehicle id is answered with
\* not-found, registers no target, changes no vehicle status and broadcasts
\* no event: every step that carries out such a command is a step of a
\* command answered with 404, and it leaves the targets, the cabs table and
\* the broadcast of the handler as they were
C27_UnknownRejected ==
    [][\A cab_id \in CabIds \ DOMAIN cabs :
          (\E resp \in Responses : UnknownCommand(cab_id, resp)) =>
             /\ UnknownCommand(cab_id, 404)
             /\ active_cab_targets' = active_cab_targets
             /\ cabs' = cabs
             /\ handler'.pc = "idle"]_vars

\* --------------------------------------------------------- route overlap
OverlapCalls == {e \in Range(fx) : e.kind = "overlap"}

\* the number of waypoints that occur in both paths
Common(path1, path2) ==
    Cardinality({w \in Waypoints : /\ \E i \in DOMAIN path1 : path1[i] = w
                                   /\ \E j \in DOMAIN path2 : path2[j] = w})

\* C28: calculate_route_overlap returns a value in [0, 1] that is the number
\* of waypoints common to the two paths divided by the length of the shorter
\* path, 0 when either path is empty, and the same value with the arguments
\* exchanged; is_route_shareable holds exactly when that value is at least
\* the threshold
C28_OverlapRatio ==
    \A e \in OverlapCalls :
        LET p == e.msg.path1
            q == e.msg.path2
            r == e.msg.overlap
        IN /\ 0 <= r[1] /\ r[1] <= r[2]
           /\ IF p = <<>> \/ q = <<>>
              THEN r[1] = 0
              ELSE r = RoundFloat(Common(p, q), IF Len(p) < Len(q) THEN Len(p) ELSE Len(q))
           /\ e.msg.swapped = r
           /\ e.msg.shareable <=> r[1] * e.msg.threshold[2] >= e.msg.threshold[1] * r[2]

\* a path that visits one waypoint twice against a path of three waypoints:
\* one common waypoint over the shorter length 2, shareable at threshold 0.5
C28_Witness ==
    \E e \in OverlapCalls :
        /\ e.msg.path1 = <<<<1, 1>>, <<1, 1>>>>
        /\ Len(e.msg.path2) = 3
        /\ e.msg.overlap = <<1, 2>>
        /\ e.msg.threshold = <<1, 2>>
        /\ e.msg.shareable

\* ------------------------------------------------- removal of subscribers
\* the step takes ws out of the list of clients
Leaves(ws) == ws \in Range(clients) /\ ws \notin Range(clients')

\* the step is one of a publish that found ws closed or failed to deliver to
\* it: a publish does not change the state of a connection
PublishRemoves(ws) ==
    /\ conn' = conn
    /\ Closed(ws) \/ Dropped(ws) \in Range(fx')

\* the step is the end of the endpoint greenlet of ws, whose loop polls
\* ws.closed every 0.1 s: neither the tick nor a broadcast takes part in it
HandlerRemoves(ws) ==
    /\ conn[ws] = "closed" /\ conn'[ws] = "done"
    /\ tick' = tick /\ handler' = handler

\* C29 as stated: a subscriber is removed from the active set only by a
\* publish that finds it closed or fails to deliver to it
C29_RemovedOnlyByPublish ==
    [][\A ws \in Conns : Leaves(ws) => PublishRemoves(ws)]_vars

\* C29 amended: a subscriber is removed from the active set by a publish
\* that finds it closed or fails to deliver to it, or by its own endpoint
\* greenlet once its connection is closed; a subscriber whose connection is
\* open, or broken but not closed, is removed by nothing but a failed delivery
C29_RemovedByPublishOrHandler ==
    [][\A ws \in Conns : Leaves(ws) => PublishRemoves(ws) \/ HandlerRemoves(ws)]_vars

\* between two publishes: the tick sleeps, no broadcast is under way, one
\* subscriber has been removed after its connection closed and another, whose
\* connection is broken but not closed, is still in the list
C29_Witness ==
    \E ws \in Conns, other \in Conns :
        /\ conn[ws] = "done" /\ ws \notin Range(clients)
        /\ conn[other] = "broken" /\ other \in Range(clients)
        /\ tick.pc = "sleep" /\ handler.pc = "idle"

\* ------------------------------------------------------ arrival threshold
\* the square of the distance of cab c to its target, as the tick computes it
\* from the cabs table and active_cab_targets
Gap2(c) ==
    Dist2(active_cab_targets[c].target_lat - cabs[c].latitude,
          active_cab_targets[c].target_lng - cabs[c].longitude)

\* the step runs an arrival branch of the tick for cab c
Arrives(c) ==
    \/ Mark("pickup_arrival", c) \in Range(fx')
    \/ Mark("destination_arrival", c) \in Range(fx')

\* the step runs the movement branch of the tick for cab c
Moves(c) ==
    /\ ~Arrives(c)
    /\ <<cabs'[c].latitude, cabs'[c].longitude>> # <<cabs[c].latitude, cabs[c].longitude>>

\* C30 as stated: a tick that finds a vehicle at a distance from its target
\* equal to the arrival threshold treats it as arrived and does not move it;
\* a movement step is taken only at a distance strictly greater
C30_ArrivedAtThreshold ==
    [][(tick.pc = "sleep" /\ 1 \in DOMAIN active_cab_targets) =>
          /\ (Gap2(1) = ARRIVE_THRESHOLD * ARRIVE_THRESHOLD /\ cabs' # cabs) => Arrives(1)
          /\ Moves(1) => Gap2(1) > ARRIVE_THRESHOLD * ARRIVE_THRESHOLD]_vars

\* C30 amended: a tick treats a vehicle as arrived only at a distance
\* strictly less than the threshold; at a distance equal to the threshold it
\* takes a movement step, which leaves the status as it was and brings the
\* vehicle to less than the threshold from its target
C30_MovesAtThreshold ==
    [][(tick.pc = "sleep" /\ 1 \in DOMAIN active_cab_targets) =>
          /\ Arrives(1) => Gap2(1) < ARRIVE_THRESHOLD * ARRIVE_THRESHOLD
          /\ Moves(1) => Gap2(1) >= ARRIVE_THRESHOLD * ARRIVE_THRESHOLD
          /\ (Gap2(1) = ARRIVE_THRESHOLD * ARRIVE_THRESHOLD /\ cabs' # cabs) =>
                /\ Moves(1)
                /\ cabs'[1].status = cabs[1].status
                /\ active_cab_targets' = active_cab_targets
                /\ Gap2(1)' < ARRIVE_THRESHOLD * ARRIVE_THRESHOLD]_vars

\* the tick is suspended in the send of a movement event for cab 1, which its
\* snapshot shows at a distance from the pickup point equal to the threshold
C30_Witness ==
    /\ tick.pc = "send_batch"
    /\ 1 \in DOMAIN active_cab_targets
    /\ Len(tick.snap) = 1 /\ Len(tick.updates) = 1
    /\ Dist2(active_cab_targets[1].target_lat - tick.snap[1].latitude,
             active_cab_targets[1].target_lng - tick.snap[1].longitude)
          = ARRIVE_THRESHOLD * ARRIVE_THRESHOLD
    /\ tick.updates[1].status = "Enroute"
    /\ cabs[1].status = "Busy"

\* ---------------------------------------------------- links of the router
\* C31: find_shortest_path links the start vertex and the end vertex to at
\* least one lattice point each, and returns a finite distance with a path
\* from start to end
C31_EndpointsLinked ==
    \A e \in PathCalls :
        e.msg.op = "find_shortest_path" =>
            /\ DOMAIN graph.edges[e.msg.start] # {}
            /\ DOMAIN graph.edges[e.msg.end] # {}
            /\ e.msg.distance # Infinity
            /\ e.msg.path # <<>>
            /\ e.msg.path[1] = e.msg.start
            /\ e.msg.path[Len(e.msg.path)] = e.msg.end

\* --------------------------------------------------------------- grid graph
GridCalls == {e \in Range(fx) : e.kind = "grid"}

\* the number of lattice lines between lo and hi, grid_step apart
Lines(lo, hi, grid_step) == (hi - lo) \div grid_step + 1

\* the lattice points of the box of a call
Lattice(e) ==
    {<<e.msg.min_lat + i * lat_step, e.msg.min_lon + j * lon_step>> :
        i \in 0..(Lines(e.msg.min_lat, e.msg.max_lat, lat_step) - 1),
        j \in 0..(Lines(e.msg.min_lon, e.msg.max_lon, lon_step) - 1)}

\* v is the right, top or top-right neighbour of u
UpperNeighbour(u, v) ==
    \/ v = <<u[1], u[2] + lon_step>>
    \/ v = <<u[1] + lat_step, u[2]>>
    \/ v = <<u[1] + lat_step, u[2] + lon_step>>

\* the vertices that can be reached from the set seen over edges of g
RECURSIVE Reach(_, _)
Reach(g, seen) ==
    LET more == seen \cup UNION {DOMAIN g.edges[u] : u \in seen}
    IN IF more = seen THEN seen ELSE Reach(g, more)

\* C32: create_grid_graph yields rows x columns vertices; each is adjacent to
\* exactly its right, top and top-right neighbours where they exist and to
\* the symmetric left, bottom and bottom-left ones; every edge has the same
\* weight in both directions; the lattice is connected
C32_GridLattice ==
    \A e \in GridCalls :
        LET V == DOMAIN graph.vertices
        IN /\ V = Lattice(e)
           /\ Cardinality(V) = Lines(e.msg.min_lat, e.msg.max_lat, lat_step)
                                  * Lines(e.msg.min_lon, e.msg.max_lon, lon_step)
           /\ DOMAIN graph.edges = V
           /\ \A u \in V :
                 /\ DOMAIN graph.edges[u]
                       = {v \in V : UpperNeighbour(u, v) \/ UpperNeighbour(v, u)}
                 /\ Range(graph.vertices[u]) = DOMAIN graph.edges[u]
                 /\ \A v \in DOMAIN graph.edges[u] :
                       graph.edges[u][v] = graph.edges[v][u]
           /\ \A u \in V : Reach(graph, {u}) = V

\* a lattice of three rows and three columns: the vertex in the middle has
\* six neighbours and a corner has two or three
C32_Witness ==
    \E e \in GridCalls :
        /\ Cardinality(DOMAIN graph.vertices) = 9
        /\ \E u \in DOMAIN graph.vertices : Cardinality(DOMAIN graph.edges[u]) = 6
        /\ \E u \in DOMAIN graph.vertices : Cardinality(DOMAIN graph.edges[u]) = 2

\* ------------------------------------------------- assignment and status
\* C33: a vehicle that has an entry in active_cab_targets has a persisted
\* status other than Available
C33_AssignedNotAvailable ==
    \A c \in DOMAIN active_cab_targets : cabs[c].status # "Available"

\* ------------------------------------------------ events after completion
\* the statuses an event carries for a vehicle whose ride is not completed
PreCompletion == {"Busy", "Shared", "Enroute", "OnTrip", "Arrived", "ArrivedDestination"}

\* book_cab and complete_ride were issued for c, in that order and with no
\* booking since, and the broadcast of complete_ride is over
RideCompleted(c) ==
    /\ order[c] = "idle" /\ trace[c] # <<>>
    /\ handler.pc = "idle"

\* C34: after complete_ride has broadcast the Available event for a vehicle,
\* and with no later booking of it, no subscriber receives an event for the
\* vehicle that carries a pre-completion status
C34_NoStaleEvent ==
    [][\A c \in DOMAIN cabs : RideCompleted(c) =>
          \A e \in Range(fx') :
              (e.kind = "sent" /\ e.cab = c) => e.msg.status \notin PreCompletion]_vars

\* --------------------------------------------------------- refused bookings
\* C35: a book_cab request that is answered with an error leaves the status
\* of the vehicle and its entry in active_cab_targets as they were
C35_RefusedBookingChangesNothing ==
    [][\A cab_id \in CabIds, start \in PickupPoints, end \in EndPoints,
          is_shared \in BOOLEAN, ids \in BOOLEAN, resp \in Responses \ {200} :
          book_cab(cab_id, start, end, is_shared, ids, resp) =>
             /\ cabs' = cabs
             /\ active_cab_targets' = active_cab_targets]_vars

\* the broadcast of the Arrived event of c is over in this step: the tick either
\* detected the arrival in this step or was suspended in a send of the event,
\* and it is not suspended in one any more
ArrivedBroadcastEnds(c) ==
    /\ \/ Mark("pickup_arrival", c) \in Range(fx')
       \/ PickupArrival(c) /\ tick' # tick
    /\ ~(PickupArrival(c))'

\* the positions of the entries of a sequence that equal e
PositionsOf(seq, e) == {i \in DOMAIN seq : seq[i] = e}

\* the broadcast of the Available event of c has begun: with a client left to
\* send to, the tick is suspended in the send of that event
AvailableBroadcastBegun(c) ==
    (\E client \in Range(clients) : ~Closed(client))
    => /\ tick.pc = "send_bcast"
       /\ tick.ret = "next"
       /\ tick.msg.cab_id = c
       /\ tick.msg.status = "Available"

EmissionBegins ==
    (IF tick'.pc = "send_bcast" /\ (tick.pc # "send_bcast" \/ tick'.msg # tick.msg)
     THEN {tick'.msg} ELSE {})
    \cup
    (IF tick'.pc = "send_batch" /\ tick.pc # "send_batch"
     THEN Range(tick'.updates) ELSE {})

\* C37: every event a tick emits for a vehicle carries the status that the
\* fleet registry holds for that vehicle when the emission begins
C37_EventCarriesStoredStatus ==
    [][\A e \in EmissionBegins :
          e.cab_id \in DOMAIN cabs => e.status = cabs'[e.cab_id].status]_vars

\* the record of cab c that the running tick works from: the row of the
\* snapshot it read when it woke up
SnapOf(c) ==
    IF tick.pc = "sleep"
    THEN [cab_id |-> c, latitude |-> cabs[c].latitude, longitude |-> cabs[c].longitude,
          status |-> cabs[c].status]
    ELSE CHOOSE r \in Range(tick.snap) : r.cab_id = c

\* the squared distance from the position the tick read to the target of c
SnapGap2(c) ==
    Dist2(active_cab_targets[c].target_lat - SnapOf(c).latitude,
          active_cab_targets[c].target_lng - SnapOf(c).longitude)

\* x is reached from x0 by a move of at most length len toward goal
TowardBy(x0, x, goal, len) ==
    /\ Abs(x - x0) <= len
    /\ (x - x0) * Sign(goal - x0) >= 0
    /\ Abs(goal - x) <= Abs(goal - x0)

\* a step of the tick: only TickWake and TickSend change the tick
TickRuns == tick' # tick

\* C38 as stated: a tick changes the position of a vehicle only if the vehicle
\* has a Target farther than the threshold or has no Target and status
\* Available; a vehicle with no Target and any other status keeps its position
\* and status across the tick
C38_MovesOnlyWhenFarOrIdle ==
    [][TickRuns =>
          \A c \in DOMAIN cabs :
             /\ (Position(c))' # Position(c)
                => \/ HasTarget(c) /\ Gap2(c) > ARRIVE_THRESHOLD * ARRIVE_THRESHOLD
                   \/ ~HasTarget(c) /\ cabs[c].status = "Available"
             /\ (~HasTarget(c) /\ cabs[c].status # "Available" /\ tick.pc = "sleep")
                => cabs'[c] = cabs[c]]_vars

\* C38 amended: a tick writes a new position for a vehicle only if the vehicle
\* has a Target (one step from the position the tick read toward the target
\* at a distance of at least the threshold, the target point itself at a
\* smaller distance, written once more when the tick switches the vehicle to
\* its destination) or has no Target and was read as Available (drift of at
\* most DRIFT per coordinate); the pass of a tick over a vehicle with no Target
\* that was read with another status changes neither position nor status
C38_MovesOnlyWithTargetOrIdle ==
    [][TickRuns =>
          \A c \in DOMAIN cabs :
             /\ (Position(c))' # Position(c)
                => \/ /\ HasTarget(c)
                      /\ SnapGap2(c) >= ARRIVE_THRESHOLD * ARRIVE_THRESHOLD
                      /\ TowardBy(SnapOf(c).latitude, cabs'[c].latitude,
                                  active_cab_targets[c].target_lat, step)
                      /\ TowardBy(SnapOf(c).longitude, cabs'[c].longitude,
                                  active_cab_targets[c].target_lng, step)
                   \/ /\ HasTarget(c)
                      /\ SnapGap2(c) < ARRIVE_THRESHOLD * ARRIVE_THRESHOLD
                      /\ Arrives(c)
                      /\ (Position(c))' = TargetPoint(c)
                   \/ /\ PickupArrival(c)
                      /\ Mark("switch_destination", c) \in Range(fx')
                      /\ (Position(c))' = tick.target
                   \/ /\ ~HasTarget(c)
                      /\ SnapOf(c).status = "Available"
                      /\ Abs(cabs'[c].latitude - SnapOf(c).latitude) <= DRIFT
                      /\ Abs(cabs'[c].longitude - SnapOf(c).longitude) <= DRIFT
             /\ (~HasTarget(c) /\ ~PickupArrival(c) /\ SnapOf(c).status # "Available")
                => cabs'[c] = cabs[c]]_vars

\* the tick is sending the Arrived event of a cab that its snapshot shows off
\* the pickup point, within the threshold, and that is now on the point
C38_Witness ==
    \E c \in DOMAIN cabs :
        /\ PickupArrival(c)
        /\ <<tick.snap[tick.i].latitude, tick.snap[tick.i].longitude>> # tick.target
        /\ Position(c) = tick.target
        /\ cabs[c].status = "Arrived"

HeapCalls == {fx[k].msg : k \in {i \in DOMAIN fx : fx[i].kind \in {"insert", "extract_min"}}}

ExtractCalls == {fx[k].msg : k \in {i \in DOMAIN fx : fx[i].kind = "extract_min"}}

InsertCalls == {fx[k].msg : k \in {i \in DOMAIN fx : fx[i].kind = "insert"}}

\* every entry but the root is no smaller than its parent
HeapOrdered(heap) ==
    \A i \in 1..(Len(heap) - 1) : heap[i + 1].distance >= heap[((i - 1) \div 2) + 1].distance

\* C39: after any sequence of insert and extract_min calls, size is the
\* number of stored entries and no entry is smaller than its parent; insert
\* adds its entry and nothing else; extract_min returns a stored entry of
\* minimum distance and removes exactly that one; on an empty heap it returns
\* None and leaves the heap as it was
C39_HeapInvariants ==
    /\ \A call \in HeapCalls :
          /\ call.after.size = Len(call.after.heap)
          /\ HeapOrdered(call.after.heap)
    /\ \A call \in InsertCalls :
          /\ Len(call.after.heap) = Len(call.before.heap) + 1
          /\ Range(call.after.heap) = Range(call.before.heap) \cup {call.result}
    /\ \A call \in ExtractCalls :
          IF call.before.heap = <<>>
          THEN call.result = None /\ call.after = call.before
          ELSE /\ call.result \in Range(call.before.heap)
               /\ \A e \in Range(call.before.heap) : call.result.distance <= e.distance
               /\ Len(call.after.heap) = Len(call.before.heap) - 1
               /\ Range(call.after.heap) = Range(call.before.heap) \ {call.result}

\* an extract_min on the empty heap, and one on a heap of four or more
\* entries whose last entry had to be moved down from the root
C39_Witness ==
    /\ \E call \in ExtractCalls : call.before.heap = <<>>
    /\ \E call \in ExtractCalls :
          /\ call.before.size >= 4
          /\ call.after.heap[1] # call.before.heap[call.before.size]
          /\ call.result.distance < call.before.heap[call.before.size].distance

====
